---------------------------- MODULE Spec2Model ----------------------------
(***************************************************************************)
(* Pit-stop (chapter 4) and overtaking (chapter 5) export pipeline of the  *)
(* F1 data report: the Round Resolver, the per-round event extraction,     *)
(* the driver identity merge and the season aggregation, as state          *)
(* machines translated from src/src/pipeline/export_chapter4_pitstops.py   *)
(* and src/src/pipeline/export_chapter5_overtakes.py.                      *)
(***************************************************************************)
EXTENDS Integers, Sequences, FiniteSets, TLC

VARIABLES
    export,          \* the export that runs: "ch4_pitstops" or "ch5_overtakes"
    pc,              \* position of main(): "start", "loop", "done", "aborted" ("infer", "inferred" for _infer_passes alone)
    sessions_resp,   \* OpenF1 /sessions response: [status, columns_ok, rows]
    schedule_resp,   \* FastF1 event schedule: [status, columns_ok, rows]
    openf1,          \* OpenF1 per session key: the /position, /drivers, /car_data and /pit responses
    fastf1,          \* FastF1 per round number: the race results and the lap table
    rounds,          \* list returned by the Round Resolver
    idx,             \* number of rounds the loop of main() has consumed
    position_df,     \* chapter 5: the round's position table (_fetch_position_df)
    pass_events,     \* chapter 5: the round's PassEvents (_infer_passes)
    driver_stats,    \* chapter 5: the round's per-driver totals (_infer_passes)
    races,           \* chapter 5: one row per processed round
    driver_acc,      \* chapter 5: season totals per driver number, [keys, val] in insertion order
    driver_meta,     \* chapter 5: driver number -> [driver, team]
    drs_unavailable, \* chapter 5: some round had no DRS share
    team_by_round,   \* chapter 4: the per-round team metrics
    race_summary,    \* chapter 4: one row per processed round
    season_pit_rows, \* chapter 4: the mapped pit table of every processed round
    undercut_acc,    \* chapter 4: team -> <<successes, attempts>>
    undercut_note,   \* chapter 4: the note of the last round with an undercut result
    fallback_rounds, \* chapter 4: the rounds whose pit rows came from FastF1
    document,        \* the output document, None until it is written
    outputs,         \* the documents of the earlier runs of the export on the same provider data
    writes           \* times this run of main() has opened the output file for writing

resolveVars == <<sessions_resp, schedule_resp, rounds>>

providerVars == <<export, openf1, fastf1, outputs>>

passVars == <<position_df, pass_events, driver_stats>>

ch5Vars == <<races, driver_acc, driver_meta, drs_unavailable>>

ch4Vars == <<team_by_round, race_summary, season_pit_rows, undercut_acc, undercut_note,
             fallback_rounds>>

vars == <<export, pc, sessions_resp, schedule_resp, openf1, fastf1, rounds, idx,
          position_df, pass_events, driver_stats,
          races, driver_acc, driver_meta, drs_unavailable,
          team_by_round, race_summary, season_pit_rows, undercut_acc, undercut_note,
          fallback_rounds, document, outputs, writes>>

-----------------------------------------------------------------------------
(* Bounds of the model *)

\* longest OpenF1 /sessions response
MaxSessions == 2

\* longest FastF1 schedule
MaxSchedule == 2

\* most position samples of one driver in one round
MaxSamples == 4

\* most position samples of one driver in one round of a whole run
MaxRunSamples == 2

\* rounds of a season whose rounds differ in their pass rates
SeasonRounds == 3

-----------------------------------------------------------------------------
(* Missing values *)

\* pd.to_numeric(..., errors="coerce") of an unparsable value
NaN == -1

\* pd.to_datetime(..., errors="coerce") of an unparsable value
NaT == -2

\* Python None
None == -3

-----------------------------------------------------------------------------
(* Sequence helpers *)

Range(s) == {s[i] : i \in DOMAIN s}

\* the elements of s at the indices in I, in ascending index order
RECURSIVE Pick(_, _)
Pick(s, I) ==
    IF s = <<>> THEN <<>>
    ELSE LET init == Pick(SubSeq(s, 1, Len(s) - 1), I)
         IN  IF Len(s) \in I THEN Append(init, s[Len(s)]) ELSE init

\* all sequences over S of length at most n
SeqUpTo(S, n) == UNION {[1..k -> S] : k \in 0..n}

\* the arrangements of the finite set S as sequences
RECURSIVE Arrangements(_)
Arrangements(S) ==
    IF S = {} THEN {<<>>}
    ELSE UNION {{<<x>> \o p : p \in Arrangements(S \ {x})} : x \in S}

\* bijections of 1..n
Perms(n) == Arrangements(1..n)

\* a missing value of a column
isna(v) == v \in {NaN, NaT}

\* DataFrame.sort_values(by) with the default kind="quicksort": every ascending
\* arrangement of the rows is a possible result (rows with equal keys may end
\* in either order), rows with a missing key go last in their original order
sort_values(df, by) ==
    LET present == SelectSeq(df, LAMBDA r : ~isna(r[by]))
        absent  == SelectSeq(df, LAMBDA r : isna(r[by]))
        n       == Len(present)
    IN  IF \A i \in 1..(n - 1) : present[i][by] < present[i + 1][by]
        THEN {present \o absent}
        ELSE {[i \in 1..n |-> present[p[i]]] \o absent :
                p \in {q \in Perms(n) :
                         \A i \in 1..(n - 1) : present[q[i]][by] <= present[q[i + 1]][by]}}

\* DataFrame.drop_duplicates(subset, keep="first")
drop_duplicates(df, subset) ==
    Pick(df, {i \in DOMAIN df : \A j \in 1..(i - 1) : df[j][subset] # df[i][subset]})

Min(a, b) == IF a <= b THEN a ELSE b


-----------------------------------------------------------------------------
(* Provider values and their conversions *)

\* pd.to_numeric(value, errors="coerce") followed by astype(int) on the kept rows:
\* a numeric text parses to its number, anything else to NaN
to_numeric(v) ==
    CASE v = "0" -> 0
      [] v = "1" -> 1
      [] v = "2" -> 2
      [] v = "3" -> 3
      [] v = "4" -> 4
      [] OTHER   -> NaN

\* str.lower() of a session name
lower(name) ==
    CASE name = "Race"   -> "race"
      [] name = "race"   -> "race"
      [] name = "Sprint" -> "sprint"
      [] OTHER           -> name

\* hours in a calendar day: strftime("%Y-%m-%d") drops the time of day
HoursPerDay == 24

\* _timestamp_to_date / _to_date_str: the calendar day of a timestamp (in hours), None for NaT
timestamp_to_date(value) ==
    IF value = NaT THEN None ELSE value \div HoursPerDay

-----------------------------------------------------------------------------
(* Provider responses the model enumerates *)

\* rows of the OpenF1 /sessions response; a row that the name filter or the key
\* coercion drops is represented once, since nothing else of it is read
SessionRows ==
    {r \in [session_name : {"Race", "race", "Sprint"},
            session_key  : {"1", "2", "x"},
            date_start   : {10, 20, NaT}] :
        /\ (r.session_name # "Race") => (r.session_key = "1" /\ r.date_start = 10)
        /\ (r.session_key = "x") => (r.date_start = 10)}

\* rows of the FastF1 event schedule; a row with a missing or non-positive round
\* number is represented once
ScheduleRows ==
    {r \in [RoundNumber : {"0", "1", "2", "x"},
            EventName   : {"A", "B"},
            EventDate   : {30, NaT}] :
        /\ (r.EventName = "A") <=> (r.EventDate = 30)
        /\ (r.RoundNumber \in {"0", "x"}) => (r.EventName = "A")}

\* an OpenF1 /sessions response: the request fails, or rows arrive, with or
\* without the required columns
SessionsResponses ==
    {[status |-> "error", columns_ok |-> TRUE, rows |-> <<>>]}
    \cup {[status |-> "ok", columns_ok |-> FALSE,
           rows |-> <<[session_name |-> "Race", session_key |-> "1", date_start |-> 10]>>]}
    \cup {[status |-> "ok", columns_ok |-> TRUE, rows |-> s] :
            s \in SeqUpTo(SessionRows, MaxSessions)}

\* a FastF1 schedule: the request fails, or rows arrive, with or without the
\* required columns
ScheduleResponses ==
    {[status |-> "error", columns_ok |-> TRUE, rows |-> <<>>]}
    \cup {[status |-> "ok", columns_ok |-> FALSE,
           rows |-> <<[RoundNumber |-> "1", EventName |-> "A", EventDate |-> 30]>>]}
    \cup {[status |-> "ok", columns_ok |-> TRUE, rows |-> s] :
            s \in SeqUpTo(ScheduleRows, MaxSchedule)}

-----------------------------------------------------------------------------
(* Round Resolver *)

Raised == [raised |-> TRUE, df |-> <<>>]

Returned(df) == [raised |-> FALSE, df |-> df]

\* _fetch_openf1_race_sessions without the sort by start time
fetch_openf1_race_sessions_unsorted(resp) ==
    IF resp.status = "error" THEN {Raised}
    ELSE IF resp.rows = <<>> THEN {Raised}
    ELSE IF ~resp.columns_ok THEN {Raised}
    ELSE
      LET race_rows == SelectSeq(resp.rows, LAMBDA r : lower(r.session_name) = "race")
          coerced == [i \in DOMAIN race_rows |->
                        [session_key   |-> to_numeric(race_rows[i].session_key),
                         date_start_ts |-> race_rows[i].date_start]]
          keyed   == SelectSeq(coerced, LAMBDA r : r.session_key # NaN)
      IN  {Returned(drop_duplicates(keyed, "session_key"))}

\* _fetch_openf1_race_sessions / _fetch_openf1_races: the possible results
fetch_openf1_race_sessions(resp) ==
    IF resp.status = "error" THEN {Raised}
    ELSE IF resp.rows = <<>> THEN {Raised}
    ELSE IF ~resp.columns_ok THEN {Raised}
    ELSE
      LET race_rows == SelectSeq(resp.rows, LAMBDA r : lower(r.session_name) = "race")
          coerced == [i \in DOMAIN race_rows |->
                        [session_key   |-> to_numeric(race_rows[i].session_key),
                         date_start_ts |-> race_rows[i].date_start]]
          keyed   == SelectSeq(coerced, LAMBDA r : r.session_key # NaN)
      IN  {Returned(drop_duplicates(sorted, "session_key")) :
              sorted \in sort_values(keyed, "date_start_ts")}

\* _fetch_schedule_rounds without the filter on positive round numbers
fetch_schedule_rounds_keep_zero(resp) ==
    IF resp.status = "error" THEN {Raised}
    ELSE IF ~resp.columns_ok THEN {Raised}
    ELSE
      LET coerced  == [i \in DOMAIN resp.rows |->
                         [RoundNumber |-> to_numeric(resp.rows[i].RoundNumber),
                          EventName   |-> resp.rows[i].EventName,
                          EventDate   |-> resp.rows[i].EventDate]]
          numbered == SelectSeq(coerced, LAMBDA r : r.RoundNumber # NaN)
      IN  {Returned(drop_duplicates(sorted, "RoundNumber")) :
              sorted \in sort_values(numbered, "RoundNumber")}

\* _fetch_schedule_rounds: the possible results
fetch_schedule_rounds(resp) ==
    IF resp.status = "error" THEN {Raised}
    ELSE IF ~resp.columns_ok THEN {Raised}
    ELSE
      LET coerced  == [i \in DOMAIN resp.rows |->
                         [RoundNumber |-> to_numeric(resp.rows[i].RoundNumber),
                          EventName   |-> resp.rows[i].EventName,
                          EventDate   |-> resp.rows[i].EventDate]]
          numbered == SelectSeq(coerced, LAMBDA r : r.RoundNumber # NaN)
          positive == SelectSeq(numbered, LAMBDA r : r.RoundNumber > 0)
      IN  {Returned(drop_duplicates(sorted, "RoundNumber")) :
              sorted \in sort_values(positive, "RoundNumber")}

\* the positional zip of the two tables
zip_rounds(schedule_df, session_df) ==
    LET count == Min(Len(schedule_df), Len(session_df))
    IN  [k \in 1..count |->
            [round       |-> schedule_df[k].RoundNumber,
             event       |-> schedule_df[k].EventName,
             date        |-> timestamp_to_date(schedule_df[k].EventDate),
             session_key |-> session_df[k].session_key]]

\* _resolve_rounds_with_sessions / _resolve_rounds: the possible results
resolve_rounds_with_sessions(sresp, schresp) ==
    LET ses == fetch_openf1_race_sessions(sresp)
        sch == fetch_schedule_rounds(schresp)
    IN  IF Raised \in ses THEN {[raised |-> TRUE, rounds |-> <<>>]}
        ELSE IF Raised \in sch THEN {[raised |-> TRUE, rounds |-> <<>>]}
        ELSE {[raised |-> FALSE, rounds |-> zip_rounds(b.df, a.df)] :
                a \in ses, b \in sch}

-----------------------------------------------------------------------------
(* main(): the state before the loop over the rounds *)

\* no per-round provider data is read
NoProviderData ==
    /\ openf1 = <<>>
    /\ fastf1 = <<>>

\* main() before the loop: nothing consumed, nothing written
LoopStart ==
    /\ idx = 0
    /\ document = None
    /\ writes = 0

\* the export has not run before
FirstRun == outputs = <<>>

\* chapter 5 main(): the accumulators as initialised
Ch5Start ==
    /\ position_df = <<>>
    /\ pass_events = <<>>
    /\ driver_stats = <<>>
    /\ races = <<>>
    /\ driver_acc = [keys |-> <<>>, val |-> <<>>]
    /\ driver_meta = <<>>
    /\ drs_unavailable = FALSE

\* chapter 4 main(): the accumulators as initialised
Ch4Start ==
    /\ team_by_round = <<>>
    /\ race_summary = <<>>
    /\ season_pit_rows = <<>>
    /\ undercut_acc = <<>>
    /\ undercut_note = "Undercut proxy unavailable."
    /\ fallback_rounds = 0

-----------------------------------------------------------------------------
(* main(): the call of the Round Resolver *)

ResolveRounds ==
    /\ pc = "start"
    /\ \E out \in resolve_rounds_with_sessions(sessions_resp, schedule_resp) :
          /\ rounds' = out.rounds
          /\ pc' = IF out.raised THEN "aborted" ELSE "loop"
    /\ UNCHANGED <<sessions_resp, schedule_resp, providerVars, idx, document, writes>>
    /\ UNCHANGED passVars
    /\ UNCHANGED ch5Vars
    /\ UNCHANGED ch4Vars

\* the Round Resolver on every enumerated pair of provider responses
InitResolve ==
    /\ export \in {"ch4_pitstops", "ch5_overtakes"}
    /\ pc = "start"
    /\ sessions_resp \in SessionsResponses
    /\ schedule_resp \in ScheduleResponses
    /\ rounds = <<>>
    /\ NoProviderData
    /\ FirstRun
    /\ LoopStart
    /\ Ch5Start
    /\ Ch4Start

NextResolve == ResolveRounds

SpecResolve == InitResolve /\ [][NextResolve]_vars

-----------------------------------------------------------------------------
(* Overtake inference (chapter 5) *)

\* seconds during which a further gain of the same driver is not counted again
PASS_COOLDOWN_S == 8

\* the elements of a finite set of integers in ascending order
RECURSIVE SortedSeq(_)
SortedSeq(S) ==
    IF S = {} THEN <<>>
    ELSE LET m == CHOOSE x \in S : \A y \in S : x <= y
         IN  <<m>> \o SortedSeq(S \ {m})

\* concatenation of the sequences f[ks[1]], f[ks[2]], ...
RECURSIVE ConcatOver(_, _)
ConcatOver(ks, f) ==
    IF ks = <<>> THEN <<>> ELSE f[Head(ks)] \o ConcatOver(Tail(ks), f)

\* the sum of the magnitudes of the events evs
RECURSIVE SumGained(_)
SumGained(evs) ==
    IF evs = <<>> THEN 0 ELSE Head(evs).passes_gained + SumGained(Tail(evs))

\* the cooldown test with a window that includes its end
cooldown_ok_exclusive(ts, last_pass_ts) ==
    (last_pass_ts = NaT) \/ (ts - last_pass_ts > PASS_COOLDOWN_S)

\* the cooldown test of _infer_passes
cooldown_ok(ts, last_pass_ts) ==
    (last_pass_ts = NaT) \/ (ts - last_pass_ts >= PASS_COOLDOWN_S)

\* the walk's state before the first sample of a driver
walk_start == [passes_made |-> 0, last_pass_ts |-> NaT, prev_pos |-> None, events |-> <<>>]

\* one iteration that counts an emitted event as one pass whatever its magnitude
walk_step_count_events(w, row) ==
    IF w.prev_pos = None THEN [w EXCEPT !.prev_pos = row.position]
    ELSE
      LET gain == w.prev_pos - row.position
      IN  IF gain >= 1 /\ cooldown_ok(row.date_ts, w.last_pass_ts)
          THEN [passes_made  |-> w.passes_made + 1,
                last_pass_ts |-> row.date_ts,
                prev_pos     |-> row.position,
                events       |-> Append(w.events,
                                   [driver_number |-> row.driver_number,
                                    date_ts       |-> row.date_ts,
                                    passes_gained |-> gain])]
          ELSE [w EXCEPT !.prev_pos = row.position]

\* (mutant) a suppressed gain restarts the cooldown window
walk_step_restart_window(w, row) ==
    IF w.prev_pos = None THEN [w EXCEPT !.prev_pos = row.position]
    ELSE
      LET gain == w.prev_pos - row.position
      IN  IF gain >= 1 /\ cooldown_ok(row.date_ts, w.last_pass_ts)
          THEN [passes_made  |-> w.passes_made + gain,
                last_pass_ts |-> row.date_ts,
                prev_pos     |-> row.position,
                events       |-> Append(w.events,
                                   [driver_number |-> row.driver_number,
                                    date_ts       |-> row.date_ts,
                                    passes_gained |-> gain])]
          ELSE IF gain >= 1
          THEN [w EXCEPT !.prev_pos = row.position, !.last_pass_ts = row.date_ts]
          ELSE [w EXCEPT !.prev_pos = row.position]

\* one iteration of the loop over a driver's samples
walk_step(w, row) ==
    IF w.prev_pos = None THEN [w EXCEPT !.prev_pos = row.position]
    ELSE
      LET gain == w.prev_pos - row.position
      IN  IF gain >= 1 /\ cooldown_ok(row.date_ts, w.last_pass_ts)
          THEN [passes_made  |-> w.passes_made + gain,
                last_pass_ts |-> row.date_ts,
                prev_pos     |-> row.position,
                events       |-> Append(w.events,
                                   [driver_number |-> row.driver_number,
                                    date_ts       |-> row.date_ts,
                                    passes_gained |-> gain])]
          ELSE [w EXCEPT !.prev_pos = row.position]

\* the loop over a driver's samples
RECURSIVE walk(_, _)
walk(w, grp) ==
    IF grp = <<>> THEN w ELSE walk(walk_step(w, Head(grp)), Tail(grp))

\* the per-driver entry of driver_stats
group_stats(grp) ==
    [passes_made          |-> walk(walk_start, grp).passes_made,
     positions_gained_net |-> grp[1].position - grp[Len(grp)].position]

\* _infer_passes: the possible (events, driver_stats) results; each driver's
\* samples are sorted by timestamp again, samples of equal timestamp in any order
infer_passes(df) ==
    LET drivers == {df[i].driver_number : i \in DOMAIN df}
        groups  == [d \in drivers |-> SelectSeq(df, LAMBDA r : r.driver_number = d)]
        orders  == {o \in [drivers -> UNION {sort_values(groups[d], "date_ts") : d \in drivers}] :
                      \A d \in drivers :
                          o[d] \in sort_values(groups[d], "date_ts")}
    IN  {[events       |-> ConcatOver(SortedSeq(drivers),
                                      [d \in drivers |-> walk(walk_start, o[d]).events]),
          driver_stats |-> [d \in drivers |-> group_stats(o[d])]] : o \in orders}

\* the call of _infer_passes on the round's position table
InferPasses ==
    /\ pc = "infer"
    /\ \E out \in infer_passes(position_df) :
          /\ pass_events' = out.events
          /\ driver_stats' = out.driver_stats
    /\ pc' = "inferred"
    /\ UNCHANGED <<position_df, providerVars, idx, document, writes>>
    /\ UNCHANGED resolveVars
    /\ UNCHANGED ch5Vars
    /\ UNCHANGED ch4Vars

\* timestamps (seconds) and positions of the enumerated samples
TimeStamps == {0, 1, 5, 9, 17}

Positions == {1, 2, 3, 4}

\* a driver's samples of distinct timestamps in timestamp order, as
\* _fetch_position_df leaves them: at most n samples over the given timestamps
\* and positions
RECURSIVE SeriesOver(_, _, _, _)
SeriesOver(d, n, times, positions) ==
    IF n = 0 THEN {<<>>}
    ELSE LET shorter == SeriesOver(d, n - 1, times, positions)
             longest == {x \in shorter : Len(x) = n - 1}
             samples == [driver_number : {d}, position : positions,
                         date_ts : times, lap_number : {NaN}]
         IN  shorter \cup
             UNION {{Append(s, r) : r \in {x \in samples :
                                              s = <<>> \/ s[Len(s)].date_ts < x.date_ts}} :
                    s \in longest}

Series(d, n) == SeriesOver(d, n, TimeStamps, Positions)

\* position tables of driver 44, alone or after two samples of driver 1 that
\* carry the same timestamp
PassInputs ==
    {a \o b : a \in {<<>>,
                     <<[driver_number |-> 1, position |-> 2, date_ts |-> 5, lap_number |-> NaN],
                       [driver_number |-> 1, position |-> 1, date_ts |-> 5, lap_number |-> NaN]>>},
              b \in Series(44, MaxSamples)}

\* _infer_passes on every enumerated position table
InitPass ==
    /\ export = "ch5_overtakes"
    /\ pc = "infer"
    /\ sessions_resp = [status |-> "error", columns_ok |-> TRUE, rows |-> <<>>]
    /\ schedule_resp = [status |-> "error", columns_ok |-> TRUE, rows |-> <<>>]
    /\ rounds = <<>>
    /\ NoProviderData
    /\ FirstRun
    /\ idx = 0
    /\ document = None
    /\ writes = 0
    /\ position_df \in PassInputs
    /\ pass_events = <<>>
    /\ driver_stats = <<>>
    /\ races = <<>>
    /\ driver_acc = [keys |-> <<>>, val |-> <<>>]
    /\ driver_meta = <<>>
    /\ drs_unavailable = FALSE
    /\ Ch4Start

NextPass == InferPasses

SpecPass == InitPass /\ [][NextPass]_vars

-----------------------------------------------------------------------------
(* Helpers of the per-round extraction *)

\* pd.to_numeric(..., errors="coerce") of a JSON number or null
coerce(v) == IF v = None THEN NaN ELSE v

\* a JSON null in a text field, and a record that lacks the field (NaN in the column)
NullText == "<null>"

MissingText == "<missing>"

\* str(value or ""): null gives "", NaN is truthy and gives "nan"
str_value(v) ==
    CASE v = NullText    -> ""
      [] v = MissingText -> "nan"
      [] OTHER           -> v

\* str.strip()
strip(t) == IF t = " " THEN "" ELSE t

\* str(value or "").strip()
str_or_empty(v) == strip(str_value(v))

\* str(driver_number)
number_text(n) ==
    CASE n = 1  -> "1"
      [] n = 44 -> "44"
      [] OTHER  -> "?"

\* the strings of the model in Python's string order (by code point)
StringOrder ==
    <<"", " ", "1", "44", "?", "Ferrari", "HAM", "Red Bull", "Unknown", "VER", "nan">>

string_rank(t) == CHOOSE i \in DOMAIN StringOrder : StringOrder[i] = t

\* the elements of a set of strings as a sequence
RECURSIVE SortedNames(_)
SortedNames(S) ==
    IF S = {} THEN <<>>
    ELSE LET x == CHOOSE y \in S : \A z \in S : string_rank(y) <= string_rank(z)
         IN  <<x>> \o SortedNames(S \ {x})

\* the concatenation of a sequence of sequences
RECURSIVE ConcatSeqs(_)
ConcatSeqs(ss) ==
    IF ss = <<>> THEN <<>>
    ELSE ss[1] \o ConcatSeqs(Tail(ss))

\* (mutant) the comparison of the first components alone
lex_leq_first_key(a, b) == a[1] <= b[1]

\* tuple a sorts before tuple b, or ties with it (Python's tuple comparison)
lex_leq(a, b) ==
    \/ a = b
    \/ \E i \in DOMAIN a :
          /\ a[i] < b[i]
          /\ \A j \in 1..(i - 1) : a[j] = b[j]

\* list.sort(key=...): the stable sort of rows by the key tuples keys[i]
RECURSIVE sort_by_keys(_, _)
sort_by_keys(rows, keys) ==
    IF rows = <<>> THEN <<>>
    ELSE LET n    == Len(rows)
             init == sort_by_keys(SubSeq(rows, 1, n - 1), SubSeq(keys, 1, n - 1))
             \* the rows before the last that sort before it or tie with it
             m    == Cardinality({i \in 1..(n - 1) : lex_leq(keys[i], keys[n])})
         IN  SubSeq(init, 1, m) \o <<rows[n]>> \o SubSeq(init, m + 1, n - 1)

\* the stable sort of a table by one numeric column
stable_sort(df, by) == sort_by_keys(df, [i \in DOMAIN df |-> <<df[i][by]>>])

\* the sum of f over its domain
RECURSIVE SumFn(_)
SumFn(f) ==
    IF DOMAIN f = {} THEN 0
    ELSE LET x == CHOOSE y \in DOMAIN f : TRUE
         IN  f[x] + SumFn([y \in DOMAIN f \ {x} |-> f[y]])

\* the largest element of a non-empty set of integers
MaxOf(S) == CHOOSE x \in S : \A y \in S : y <= x

MinOf(S) == CHOOSE x \in S : \A y \in S : x <= y

\* round(num / den, digits) as an integer number of 10^-digits units (scale =
\* 10^digits); no quotient of the model lies half-way between two such values
round_ratio(num, den, scale) == (2 * scale * num + den) \div (2 * den)

-----------------------------------------------------------------------------
(* Chapter 5: per-round extraction *)

\* _fetch_position_df
fetch_position_df(resp) ==
    IF resp.status = "error" THEN Raised
    ELSE IF resp.rows = <<>> \/ ~resp.columns_ok THEN Returned(<<>>)
    ELSE
      LET coerced == [i \in DOMAIN resp.rows |->
                        [driver_number |-> coerce(resp.rows[i].driver_number),
                         position      |-> coerce(resp.rows[i].position),
                         date_ts       |-> resp.rows[i].date,
                         lap_number    |-> coerce(resp.rows[i].lap_number)]]
          kept    == SelectSeq(coerced, LAMBDA r : /\ r.driver_number # NaN
                                                   /\ r.position # NaN
                                                   /\ r.date_ts # NaT)
      IN  Returned(stable_sort(stable_sort(kept, "date_ts"), "driver_number"))

\* _driver_map_openf1 / _fetch_openf1_driver_map: the first row of a driver number wins
driver_map_openf1(resp) ==
    IF resp.status = "error" THEN Raised
    ELSE IF resp.rows = <<>> \/ ~resp.columns_ok THEN Returned(<<>>)
    ELSE
      LET coerced  == [i \in DOMAIN resp.rows |->
                         [driver_number |-> coerce(resp.rows[i].driver_number),
                          driver        |-> str_or_empty(resp.rows[i].name_acronym),
                          team          |-> str_or_empty(resp.rows[i].team_name)]]
          numbered == SelectSeq(coerced, LAMBDA r : r.driver_number # NaN)
          firsts   == drop_duplicates(numbered, "driver_number")
      IN  Returned([d \in {firsts[i].driver_number : i \in DOMAIN firsts} |->
                      LET r == CHOOSE x \in Range(firsts) : x.driver_number = d
                      IN  [driver |-> r.driver, team |-> r.team]])

\* _driver_map_fastf1 / _fetch_fastf1_driver_map: a failed load gives no mapping,
\* the last row of a driver number wins
driver_map_fastf1(resp) ==
    IF resp.status = "error" \/ resp.rows = <<>> \/ ~resp.columns_ok THEN <<>>
    ELSE
      LET numbers == {coerce(resp.rows[i].DriverNumber) : i \in DOMAIN resp.rows} \ {NaN}
      IN  [d \in numbers |->
              LET i == MaxOf({j \in DOMAIN resp.rows : coerce(resp.rows[j].DriverNumber) = d})
              IN  [driver |-> str_or_empty(resp.rows[i].Abbreviation),
                   team   |-> str_or_empty(resp.rows[i].TeamName)]]

\* {**fastf1_map, **openf1_map}: the OpenF1 entry of a driver replaces the FastF1 entry
merged_meta(fastf1_map, openf1_map) ==
    [d \in DOMAIN fastf1_map \cup DOMAIN openf1_map |->
        IF d \in DOMAIN openf1_map THEN openf1_map[d] ELSE fastf1_map[d]]

\* (mutant) no lap table behind the lap numbers of the position samples
laps_completed_total_no_fallback(df, laps_resp) ==
    LET lap_df == SelectSeq(df, LAMBDA r : r.lap_number # NaN)
        ds     == {lap_df[i].driver_number : i \in DOMAIN lap_df}
    IN  IF lap_df # <<>>
        THEN SumFn([d \in ds |->
                      MaxOf({lap_df[i].lap_number : i \in
                               {j \in DOMAIN lap_df : lap_df[j].driver_number = d}})])
        ELSE 0

\* (mutant) the lap table comes first, the lap numbers of the samples second
laps_completed_total_lap_table_first(df, laps_resp) ==
    LET lap_df == SelectSeq(df, LAMBDA r : r.lap_number # NaN)
        ds     == {lap_df[i].driver_number : i \in DOMAIN lap_df}
    IN  IF laps_resp.status = "ok" /\ laps_resp.rows # <<>> /\ laps_resp.columns_ok
        THEN Len(SelectSeq(laps_resp.rows,
                           LAMBDA r : r.Driver \notin {NullText, MissingText}))
        ELSE IF lap_df # <<>>
        THEN SumFn([d \in ds |->
                      MaxOf({lap_df[i].lap_number : i \in
                               {j \in DOMAIN lap_df : lap_df[j].driver_number = d}})])
        ELSE 0

\* _laps_completed_total
laps_completed_total(df, laps_resp) ==
    LET lap_df == SelectSeq(df, LAMBDA r : r.lap_number # NaN)
        ds     == {lap_df[i].driver_number : i \in DOMAIN lap_df}
    IN  IF lap_df # <<>>
        THEN SumFn([d \in ds |->
                      MaxOf({lap_df[i].lap_number : i \in
                               {j \in DOMAIN lap_df : lap_df[j].driver_number = d}})])
        ELSE IF laps_resp.status = "error" THEN 0
        ELSE IF laps_resp.rows = <<>> \/ ~laps_resp.columns_ok THEN 0
        ELSE Len(SelectSeq(laps_resp.rows,
                           LAMBDA r : r.Driver \notin {NullText, MissingText}))

\* _fetch_car_drs_df: the samples with the DRS flag set
fetch_car_drs_df(resp) ==
    IF resp.status = "error" THEN Raised
    ELSE IF resp.rows = <<>> \/ ~resp.columns_ok THEN Returned(<<>>)
    ELSE
      LET coerced == [i \in DOMAIN resp.rows |->
                        [driver_number |-> coerce(resp.rows[i].driver_number),
                         drs_flag      |-> coerce(resp.rows[i].drs),
                         date_ts       |-> resp.rows[i].date]]
          kept    == SelectSeq(coerced, LAMBDA r : /\ r.driver_number # NaN
                                                   /\ r.drs_flag # NaN
                                                   /\ r.date_ts # NaT)
          active  == SelectSeq(kept, LAMBDA r : r.drs_flag > 0)
      IN  Returned(stable_sort(stable_sort(active, "date_ts"), "driver_number"))

\* seconds before a pass in which an active DRS sample counts
DRS_WINDOW_S == 2

\* thousandths: round(..., 3)
SHARE_SCALE == 1000

\* hundred-thousandths: round(pass_rate, 5)
RATE_SCALE == 100000

\* (mutant) a share of 0 when no pass has a DRS sample
drs_share_zero(events, drs_df) ==
    IF events = <<>> \/ drs_df = <<>> THEN 0
    ELSE
      LET sampled(e) == \E i \in DOMAIN drs_df : drs_df[i].driver_number = e.driver_number
          in_drs(e)  == \E i \in DOMAIN drs_df :
                           /\ drs_df[i].driver_number = e.driver_number
                           /\ e.date_ts - DRS_WINDOW_S <= drs_df[i].date_ts
                           /\ drs_df[i].date_ts <= e.date_ts
          aligned    == Len(SelectSeq(events, sampled))
          drs_passes == SumGained(SelectSeq(events, LAMBDA e : sampled(e) /\ in_drs(e)))
          total      == SumGained(events)
      IN  IF aligned = 0 THEN 0
          ELSE IF total = 0 THEN 0
          ELSE round_ratio(drs_passes, total, SHARE_SCALE)

\* _drs_share: None, or the share in thousandths
drs_share(events, drs_df) ==
    IF events = <<>> \/ drs_df = <<>> THEN None
    ELSE
      LET sampled(e) == \E i \in DOMAIN drs_df : drs_df[i].driver_number = e.driver_number
          in_drs(e)  == \E i \in DOMAIN drs_df :
                           /\ drs_df[i].driver_number = e.driver_number
                           /\ e.date_ts - DRS_WINDOW_S <= drs_df[i].date_ts
                           /\ drs_df[i].date_ts <= e.date_ts
          aligned    == Len(SelectSeq(events, sampled))
          drs_passes == SumGained(SelectSeq(events, LAMBDA e : sampled(e) /\ in_drs(e)))
          total      == SumGained(events)
      IN  IF aligned = 0 THEN None
          ELSE IF total = 0 THEN None
          ELSE round_ratio(drs_passes, total, SHARE_SCALE)

\* (mutant) the season net is overwritten by the round's value
accumulate_last_round(acc, stats) ==
    [keys |-> acc.keys \o SortedSeq(DOMAIN stats \ Range(acc.keys)),
     val  |-> [d \in DOMAIN acc.val \cup DOMAIN stats |->
                 LET old == IF d \in DOMAIN acc.val THEN acc.val[d]
                            ELSE [passes_made |-> 0, positions_gained_net |-> 0]
                     new == IF d \in DOMAIN stats THEN stats[d]
                            ELSE [passes_made |-> 0, positions_gained_net |-> 0]
                 IN  [passes_made          |-> old.passes_made + new.passes_made,
                      positions_gained_net |-> IF d \in DOMAIN stats
                                               THEN new.positions_gained_net
                                               ELSE old.positions_gained_net]]]

\* (mutant) the passes of a driver who is in the season totals already are not added
accumulate_new_drivers_only(acc, stats) ==
    [keys |-> acc.keys \o SortedSeq(DOMAIN stats \ Range(acc.keys)),
     val  |-> [d \in DOMAIN acc.val \cup DOMAIN stats |->
                 LET old == IF d \in DOMAIN acc.val THEN acc.val[d]
                            ELSE [passes_made |-> 0, positions_gained_net |-> 0]
                     new == IF d \in DOMAIN stats THEN stats[d]
                            ELSE [passes_made |-> 0, positions_gained_net |-> 0]
                 IN  [passes_made          |-> IF d \in DOMAIN acc.val THEN old.passes_made
                                               ELSE new.passes_made,
                      positions_gained_net |-> old.positions_gained_net
                                                 + new.positions_gained_net]]]

\* driver_acc[number] += stats, new drivers enter in the order of driver_stats
accumulate(acc, stats) ==
    [keys |-> acc.keys \o SortedSeq(DOMAIN stats \ Range(acc.keys)),
     val  |-> [d \in DOMAIN acc.val \cup DOMAIN stats |->
                 LET old == IF d \in DOMAIN acc.val THEN acc.val[d]
                            ELSE [passes_made |-> 0, positions_gained_net |-> 0]
                     new == IF d \in DOMAIN stats THEN stats[d]
                            ELSE [passes_made |-> 0, positions_gained_net |-> 0]
                 IN  [passes_made          |-> old.passes_made + new.passes_made,
                      positions_gained_net |-> old.positions_gained_net
                                                 + new.positions_gained_net]]]

-----------------------------------------------------------------------------
(* Chapter 5: main() *)

\* (mutant) the output file is written when a call raises
Abort_after_write ==
    /\ pc' = "aborted"
    /\ writes' = writes + 1
    /\ UNCHANGED <<idx, document>>

\* an external call raised and nothing catches it: main() ends without writing
Abort ==
    /\ pc' = "aborted"
    /\ UNCHANGED <<idx, document, writes>>

\* one iteration of the loop over the rounds
Ch5Round ==
    /\ export = "ch5_overtakes"
    /\ pc = "loop"
    /\ idx < Len(rounds)
    /\ LET round_info == rounds[idx + 1]
           o          == openf1[round_info.session_key]
           f          == fastf1[round_info.round]
           pos        == fetch_position_df(o.position)
           openf1_map == driver_map_openf1(o.drivers)
           fastf1_map == driver_map_fastf1(f.results)
       IN  IF pos.raised
           THEN /\ Abort
                /\ UNCHANGED passVars
                /\ UNCHANGED ch5Vars
           ELSE IF pos.df = <<>>
           THEN \* continue
                /\ pc' = "loop"
                /\ idx' = idx + 1
                /\ position_df' = pos.df
                /\ UNCHANGED <<pass_events, driver_stats, document, writes>>
                /\ UNCHANGED ch5Vars
           ELSE IF openf1_map.raised
           THEN /\ Abort
                /\ position_df' = pos.df
                /\ UNCHANGED <<pass_events, driver_stats>>
                /\ UNCHANGED ch5Vars
           ELSE
             \E out \in infer_passes(pos.df) :
                LET merged          == merged_meta(fastf1_map, openf1_map.df)
                    total_overtakes == SumGained(out.events)
                    laps_total      == laps_completed_total(pos.df, f.laps)
                    pass_rate       == IF laps_total <= 0 THEN 0
                                       ELSE round_ratio(total_overtakes, laps_total, RATE_SCALE)
                    car             == fetch_car_drs_df(o.car_data)
                    share           == IF car.raised THEN None
                                       ELSE drs_share(out.events, car.df)
                IN  /\ pc' = "loop"
                    /\ idx' = idx + 1
                    /\ position_df' = pos.df
                    /\ pass_events' = out.events
                    /\ driver_stats' = out.driver_stats
                    /\ driver_meta' = [d \in DOMAIN driver_meta \cup DOMAIN merged |->
                                          IF d \in DOMAIN merged THEN merged[d]
                                          ELSE driver_meta[d]]
                    /\ driver_acc' = accumulate(driver_acc, out.driver_stats)
                    /\ drs_unavailable' = (drs_unavailable \/ share = None)
                    /\ races' = Append(races,
                                   [round           |-> round_info.round,
                                    event           |-> round_info.event,
                                    date            |-> round_info.date,
                                    session_key     |-> round_info.session_key,
                                    total_overtakes |-> total_overtakes,
                                    pass_rate       |-> pass_rate,
                                    drs_share       |-> share])
                    /\ UNCHANGED <<document, writes>>
    /\ UNCHANGED resolveVars
    /\ UNCHANGED providerVars
    /\ UNCHANGED ch4Vars

\* int(round(num / den)): the nearest integer; a quotient half-way between two
\* integers is rounded on its floating-point value and may go either way
round_int(num, den) ==
    IF (2 * num) % den = 0 /\ ((2 * num) \div den) % 2 = 1
    THEN {num \div den, num \div den + 1}
    ELSE {(2 * num + den) \div (2 * den)}

\* (mutant) rounds of one common pass rate get the index 0
processional_index_flat_zero(r, rate_min, rate_max) ==
    IF rate_max = rate_min THEN {0}
    ELSE round_int(100 * (rate_max - r), rate_max - rate_min)

\* (mutant) the index grows with the pass rate
processional_index_not_inverted(r, rate_min, rate_max) ==
    IF rate_max = rate_min THEN {50}
    ELSE round_int(100 * (r - rate_min), rate_max - rate_min)

\* the processional index of a round of pass rate r among rates of the given extremes
processional_index(r, rate_min, rate_max) ==
    IF rate_max = rate_min THEN {50}
    ELSE round_int(100 * (rate_max - r), rate_max - rate_min)

\* (mutant) the driver_passing rows in an order that differs from run to run
driver_passing_rows_run_order(acc, meta) ==
    [i \in DOMAIN acc.keys |->
        LET number == IF outputs = <<>> THEN acc.keys[i]
                      ELSE acc.keys[Len(acc.keys) + 1 - i]
            known  == number \in DOMAIN meta
        IN  [driver               |-> IF known /\ meta[number].driver # ""
                                      THEN meta[number].driver ELSE number_text(number),
             team                 |-> IF known /\ meta[number].team # ""
                                      THEN meta[number].team ELSE "Unknown",
             passes_made          |-> acc.val[number].passes_made,
             positions_gained_net |-> acc.val[number].positions_gained_net]]

\* the driver_passing rows in the insertion order of driver_acc
driver_passing_rows(acc, meta) ==
    [i \in DOMAIN acc.keys |->
        LET number == acc.keys[i]
            known  == number \in DOMAIN meta
        IN  [driver               |-> IF known /\ meta[number].driver # ""
                                      THEN meta[number].driver ELSE number_text(number),
             team                 |-> IF known /\ meta[number].team # ""
                                      THEN meta[number].team ELSE "Unknown",
             passes_made          |-> acc.val[number].passes_made,
             positions_gained_net |-> acc.val[number].positions_gained_net]]

\* the end of main(): the index, the tables, their sorts and the write
Ch5Finalize ==
    /\ export = "ch5_overtakes"
    /\ pc = "loop"
    /\ idx = Len(rounds)
    /\ LET sorted_races == stable_sort(races, "round")
           pass_rates   == {sorted_races[i].pass_rate : i \in DOMAIN sorted_races}
           rate_min     == IF pass_rates = {} THEN 0 ELSE MinOf(pass_rates)
           rate_max     == IF pass_rates = {} THEN 0 ELSE MaxOf(pass_rates)
           choices      == [i \in DOMAIN sorted_races |->
                               processional_index(sorted_races[i].pass_rate,
                                                  rate_min, rate_max)]
       IN  \E index \in [DOMAIN sorted_races -> UNION Range(choices)] :
              /\ \A i \in DOMAIN sorted_races : index[i] \in choices[i]
              /\ LET indexed == [i \in DOMAIN sorted_races |->
                                   [round              |-> sorted_races[i].round,
                                    event              |-> sorted_races[i].event,
                                    date               |-> sorted_races[i].date,
                                    session_key        |-> sorted_races[i].session_key,
                                    total_overtakes    |-> sorted_races[i].total_overtakes,
                                    pass_rate          |-> sorted_races[i].pass_rate,
                                    drs_share          |-> sorted_races[i].drs_share,
                                    processional_index |-> index[i]]]
                     circuit == [i \in DOMAIN indexed |->
                                   [event              |-> indexed[i].event,
                                    round              |-> indexed[i].round,
                                    processional_index |-> indexed[i].processional_index,
                                    pass_rate          |-> indexed[i].pass_rate,
                                    total_overtakes    |-> indexed[i].total_overtakes]]
                     passing == driver_passing_rows(driver_acc, driver_meta)
                 IN  /\ races' = indexed
                     /\ document' =
                           [races          |-> indexed,
                            circuit_index  |-> sort_by_keys(circuit,
                                                  [i \in DOMAIN circuit |->
                                                      <<0 - circuit[i].processional_index,
                                                        circuit[i].round>>]),
                            driver_passing |-> sort_by_keys(passing,
                                                  [i \in DOMAIN passing |->
                                                      <<0 - passing[i].passes_made,
                                                        0 - passing[i].positions_gained_net,
                                                        string_rank(passing[i].driver)>>]),
                            notes          |->
                               [method   |-> "Position time-series pass detection with cooldown; DRS share proxy when available.",
                                drs_note |-> IF drs_unavailable
                                             THEN "DRS share proxy unavailable for some/all races due car_data alignment limits."
                                             ELSE "DRS share proxy from OpenF1 car_data around pass timestamps."]]
    /\ writes' = writes + 1
    /\ pc' = "done"
    /\ UNCHANGED <<idx, driver_acc, driver_meta, drs_unavailable>>
    /\ UNCHANGED passVars
    /\ UNCHANGED resolveVars
    /\ UNCHANGED providerVars
    /\ UNCHANGED ch4Vars

-----------------------------------------------------------------------------
(* Chapter 4: per-round extraction *)

\* the duration fields of an OpenF1 /pit record, in the order they are tried
DURATION_CANDIDATES == <<"pit_duration", "stop_duration", "pit_time">>

\* the pit duration bound of the validity filter, in seconds
MAX_PIT_S == 120

\* (mutant) the validity filter admits a stop of exactly 120 seconds
valid_pit_s_inclusive(pit_s) == pit_s > 0 /\ pit_s <= MAX_PIT_S

\* 0 < pit_s < 120
valid_pit_s(pit_s) == pit_s > 0 /\ pit_s < MAX_PIT_S

\* the validity filter of _fetch_pit_df on a coerced duration
pit_filter(pit_s) == pit_s # NaN /\ valid_pit_s(pit_s)

\* _fetch_pit_df: resp is [status, columns, rows]; the first duration candidate
\* among the columns is read, a column that is absent reads as NaN
fetch_pit_df(resp) ==
    IF resp.status = "error" THEN Raised
    ELSE IF resp.rows = <<>> THEN Returned(<<>>)
    ELSE
      LET present == SelectSeq(DURATION_CANDIDATES, LAMBDA c : c \in resp.columns)
      IN  IF present = <<>> THEN Returned(<<>>)
          ELSE
            LET duration_col == present[1]
                timed == [i \in DOMAIN resp.rows |->
                            [driver_number |-> IF "driver_number" \in resp.columns
                                               THEN coerce(resp.rows[i].driver_number)
                                               ELSE NaN,
                             lap_number    |-> IF "lap_number" \in resp.columns
                                               THEN coerce(resp.rows[i].lap_number)
                                               ELSE NaN,
                             pit_s         |-> coerce(resp.rows[i][duration_col])]]
                valid == SelectSeq(timed, LAMBDA r : pit_filter(r.pit_s))
            IN  Returned(SelectSeq(valid, LAMBDA r : r.driver_number # NaN))

\* the drivers of a lap table in the order of groupby("Driver"): rows without a
\* driver belong to no group
lap_drivers(rows) ==
    LET names == {rows[i].Driver : i \in DOMAIN rows} \ {NullText, MissingText}
    IN  SortedNames(names)

\* (mutant) the pit-entry time is read from the lap of the pit exit itself
driver_pit_rows_same_lap(driver, grp) ==
    LET emits(i) ==
            /\ grp[i].PitOutTime # NaT
            /\ grp[i].PitInTime # NaT
            /\ valid_pit_s(grp[i].PitOutTime - grp[i].PitInTime)
        kept == SelectSeq([i \in DOMAIN grp |-> i], emits)
    IN  [j \in DOMAIN kept |->
            [driver_number |-> coerce(grp[kept[j]].DriverNumber),
             driver        |-> driver,
             team          |-> str_value(grp[kept[j]].Team),
             lap_number    |-> grp[kept[j]].LapNumber,
             pit_s         |-> grp[kept[j]].PitOutTime - grp[kept[j]].PitInTime]]

\* the pit rows of one driver's laps in the order grp: a lap with a pit-exit time
\* whose preceding lap has a pit-entry time, exit minus entry within the filter;
\* of two laps of one number the later in grp is the lap_index entry
driver_pit_rows(driver, grp) ==
    LET lap_index(n) ==
            LET at == {i \in DOMAIN grp : grp[i].LapNumber = n}
            IN  IF at = {} THEN None ELSE MaxOf(at)
        emits(i) ==
            /\ grp[i].PitOutTime # NaT
            /\ lap_index(grp[i].LapNumber - 1) # None
            /\ grp[lap_index(grp[i].LapNumber - 1)].PitInTime # NaT
            /\ valid_pit_s(grp[i].PitOutTime
                             - grp[lap_index(grp[i].LapNumber - 1)].PitInTime)
        kept == SelectSeq([i \in DOMAIN grp |-> i], emits)
    IN  [j \in DOMAIN kept |->
            [driver_number |-> coerce(grp[kept[j]].DriverNumber),
             driver        |-> driver,
             team          |-> str_value(grp[kept[j]].Team),
             lap_number    |-> grp[kept[j]].LapNumber,
             pit_s         |-> grp[kept[j]].PitOutTime
                                 - grp[lap_index(grp[kept[j]].LapNumber - 1)].PitInTime]]

\* (mutant) the lap table is never read
fetch_fastf1_pit_df_unread(resp) == {Returned(<<>>)}

\* _fetch_fastf1_pit_df: the possible results; a failed load gives no rows, a lap
\* without a number raises, laps of equal number are sorted in any order
fetch_fastf1_pit_df(resp) ==
    IF resp.status = "error" \/ resp.rows = <<>> \/ ~resp.columns_ok
    THEN {Returned(<<>>)}
    ELSE
      LET drivers == lap_drivers(resp.rows)
          groups  == [k \in DOMAIN drivers |->
                        SelectSeq(resp.rows, LAMBDA r : r.Driver = drivers[k])]
      IN  IF \E k \in DOMAIN drivers : \E i \in DOMAIN groups[k] :
                 groups[k][i].LapNumber = NaN
          THEN {Raised}
          ELSE
            LET orders == {o \in [DOMAIN drivers ->
                                    UNION {sort_values(groups[k], "LapNumber") :
                                             k \in DOMAIN drivers}] :
                             \A k \in DOMAIN drivers :
                                 o[k] \in sort_values(groups[k], "LapNumber")}
            IN  {Returned(ConcatSeqs([k \in DOMAIN drivers |->
                                         driver_pit_rows(drivers[k], o[k])])) :
                   o \in orders}

\* _fetch_openf1_driver_map: the first row of a driver number wins
fetch_openf1_driver_map(resp) ==
    IF resp.status = "error" THEN Raised
    ELSE IF resp.rows = <<>> \/ ~resp.columns_ok THEN Returned(<<>>)
    ELSE
      LET coerced  == [i \in DOMAIN resp.rows |->
                         [driver_number |-> coerce(resp.rows[i].driver_number),
                          abbr          |-> str_or_empty(resp.rows[i].name_acronym),
                          team          |-> str_or_empty(resp.rows[i].team_name)]]
          numbered == SelectSeq(coerced, LAMBDA r : r.driver_number # NaN)
          firsts   == drop_duplicates(numbered, "driver_number")
      IN  Returned([d \in {firsts[i].driver_number : i \in DOMAIN firsts} |->
                      LET r == CHOOSE x \in Range(firsts) : x.driver_number = d
                      IN  [abbr |-> r.abbr, team |-> r.team]])

\* _fetch_fastf1_driver_map: a failed load gives no mapping, the last row of a
\* driver number wins
fetch_fastf1_driver_map(resp) ==
    IF resp.status = "error" \/ resp.rows = <<>> \/ ~resp.columns_ok THEN <<>>
    ELSE
      LET numbers == {coerce(resp.rows[i].DriverNumber) : i \in DOMAIN resp.rows} \ {NaN}
      IN  [d \in numbers |->
              LET i == MaxOf({j \in DOMAIN resp.rows : coerce(resp.rows[j].DriverNumber) = d})
              IN  [abbr |-> str_or_empty(resp.rows[i].Abbreviation),
                   team |-> str_or_empty(resp.rows[i].TeamName)]]

\* (mutant) main.map_driver_meta with the FastF1 value first
map_driver_meta_fastf1_first(openf1_map, fastf1_map, driver_number) ==
    LET o == IF driver_number \in DOMAIN openf1_map THEN openf1_map[driver_number]
             ELSE [abbr |-> "", team |-> ""]
        f == IF driver_number \in DOMAIN fastf1_map THEN fastf1_map[driver_number]
             ELSE [abbr |-> "", team |-> ""]
    IN  [driver |-> IF f.abbr # "" THEN f.abbr
                    ELSE IF o.abbr # "" THEN o.abbr
                    ELSE number_text(driver_number),
         team   |-> IF f.team # "" THEN f.team
                    ELSE IF o.team # "" THEN o.team
                    ELSE "Unknown"]

\* main.map_driver_meta: o.get(...) or f.get(...) or the number / "Unknown"
map_driver_meta(openf1_map, fastf1_map, driver_number) ==
    LET o == IF driver_number \in DOMAIN openf1_map THEN openf1_map[driver_number]
             ELSE [abbr |-> "", team |-> ""]
        f == IF driver_number \in DOMAIN fastf1_map THEN fastf1_map[driver_number]
             ELSE [abbr |-> "", team |-> ""]
    IN  [driver |-> IF o.abbr # "" THEN o.abbr
                    ELSE IF f.abbr # "" THEN f.abbr
                    ELSE number_text(driver_number),
         team   |-> IF o.team # "" THEN o.team
                    ELSE IF f.team # "" THEN f.team
                    ELSE "Unknown"]

\* main: mapped = pit_df with the driver and team columns added when absent
with_labels(pit_df, used_fallback) ==
    [i \in DOMAIN pit_df |->
        [driver_number |-> pit_df[i].driver_number,
         driver        |-> IF used_fallback THEN pit_df[i].driver ELSE "",
         team          |-> IF used_fallback THEN pit_df[i].team ELSE "",
         lap_number    |-> pit_df[i].lap_number,
         pit_s         |-> pit_df[i].pit_s]]

\* main._fill_row: a row with a driver number has its blank labels filled
fill_row(row, openf1_map, fastf1_map) ==
    IF row.driver_number = NaN THEN row
    ELSE LET meta == map_driver_meta(openf1_map, fastf1_map, row.driver_number)
         IN  [row EXCEPT !.driver = IF strip(row.driver) = "" THEN meta.driver ELSE @,
                         !.team   = IF strip(row.team) = "" THEN meta.team ELSE @]

-----------------------------------------------------------------------------
(* Chapter 4: the statistics of a round *)

\* thousandths of a second in a second: the tables carry durations rounded to
\* three decimals
MILLI == 1000

\* the values of a column in ascending order
sorted_values(values) == sort_by_keys(values, [i \in DOMAIN values |-> <<values[i]>>])

SumSeq(values) == SumFn(values)

\* round(values.mean(), 3) in thousandths
mean_milli(values) == round_ratio(SumSeq(values), Len(values), MILLI)

\* round(values.quantile(quarters / 4), 3) in thousandths: linear interpolation
\* between the two order statistics around (n - 1) * quarters / 4
quantile_milli(values, quarters) ==
    LET ordered == sorted_values(values)
        pos     == (Len(values) - 1) * quarters
        lo      == pos \div 4 + 1
        part    == pos % 4
    IN  IF part = 0 THEN MILLI * ordered[lo]
        ELSE MILLI * ordered[lo] + (MILLI \div 4) * part * (ordered[lo + 1] - ordered[lo])

RECURSIVE gcd(_, _)
gcd(a, b) == IF b = 0 THEN a ELSE gcd(b, a % b)

\* values.std(ddof=0), given by the population variance it is the root of, as
\* the fraction [num, den] in lowest terms
std_ddof0(values) ==
    LET n   == Len(values)
        num == n * SumFn([i \in DOMAIN values |-> values[i] * values[i]])
                 - SumSeq(values) * SumSeq(values)
        g   == gcd(n * n, num)
    IN  [num |-> num \div g, den |-> (n * n) \div g]

\* the team values of a table in the order of groupby("team")
teams_of(pit_df) == SortedNames({pit_df[i].team : i \in DOMAIN pit_df})

\* the durations of a team's rows
team_values(pit_df, team) ==
    LET grp == SelectSeq(pit_df, LAMBDA r : r.team = team)
    IN  [i \in DOMAIN grp |-> grp[i].pit_s]

\* _team_round_metrics
team_round_metrics(round_number, pit_df) ==
    LET named == SelectSeq(teams_of(pit_df), LAMBDA t : strip(t) # "")
        rows  == [k \in DOMAIN named |->
                    LET values == team_values(pit_df, named[k])
                    IN  [round         |-> round_number,
                         team          |-> named[k],
                         avg_pit_s     |-> mean_milli(values),
                         p25_pit_s     |-> quantile_milli(values, 1),
                         p50_pit_s     |-> quantile_milli(values, 2),
                         p75_pit_s     |-> quantile_milli(values, 3),
                         best_pit_s    |-> MILLI * MinOf(Range(values)),
                         consistency_s |-> std_ddof0(values),
                         n_stops       |-> Len(values)]]
    IN  sort_by_keys(rows, [k \in DOMAIN rows |->
                              <<rows[k].avg_pit_s, string_rank(rows[k].team)>>])

\* _race_summary_row of a non-empty table: the fastest row is the first of the
\* least duration
race_summary_row(round_number, pit_df) ==
    LET values  == [i \in DOMAIN pit_df |-> pit_df[i].pit_s]
        fastest == MinOf({i \in DOMAIN pit_df : pit_df[i].pit_s = MinOf(Range(values))})
    IN  [round          |-> round_number,
         total_stops    |-> Len(values),
         median_pit_s   |-> quantile_milli(values, 2),
         iqr_pit_s      |-> quantile_milli(values, 3) - quantile_milli(values, 1),
         fastest_pit_s  |-> MILLI * pit_df[fastest].pit_s,
         fastest_team   |-> pit_df[fastest].team,
         fastest_driver |-> pit_df[fastest].driver]

-----------------------------------------------------------------------------
(* Chapter 4: the undercut proxy *)

\* the laps after the pit lap whose position readings are looked up
UNDERCUT_LAPS == <<1, 2, 3>>

\* the position of a driver at a lap in the /position index: the last row of
\* the key, None without one
position_at(pos_df, driver_number, lap) ==
    LET at == {i \in DOMAIN pos_df : /\ pos_df[i].driver_number = driver_number
                                    /\ pos_df[i].lap_number = lap}
    IN  IF at = {} THEN None ELSE pos_df[MaxOf(at)].position

\* (mutant) a success counts the places gained
undercut_outcome_places(pos_df, row) ==
    LET before == position_at(pos_df, row.driver_number, row.lap_number - 1)
        after_positions  == [k \in DOMAIN UNDERCUT_LAPS |->
                               position_at(pos_df, row.driver_number,
                                           row.lap_number + UNDERCUT_LAPS[k])]
        after_candidates == SelectSeq(after_positions, LAMBDA p : p # None)
    IN  IF row.lap_number = NaN \/ before = None \/ after_candidates = <<>> THEN None
        ELSE IF before - after_candidates[Len(after_candidates)] >= 1
        THEN before - after_candidates[Len(after_candidates)]
        ELSE 0

\* the outcome of one pit row: None when it is no attempt, else 1 or 0
undercut_outcome(pos_df, row) ==
    LET before == position_at(pos_df, row.driver_number, row.lap_number - 1)
        after_positions  == [k \in DOMAIN UNDERCUT_LAPS |->
                               position_at(pos_df, row.driver_number,
                                           row.lap_number + UNDERCUT_LAPS[k])]
        after_candidates == SelectSeq(after_positions, LAMBDA p : p # None)
    IN  IF row.lap_number = NaN \/ before = None \/ after_candidates = <<>> THEN None
        ELSE IF before - after_candidates[Len(after_candidates)] >= 1 THEN 1 ELSE 0

\* the result None of the undercut proxy: no team, and marked unavailable
NoResult == [available |-> FALSE, teams |-> <<>>]

\* _compute_undercut_from_openf1 on a non-empty pit table: [raised, result,
\* note], result None or team -> <<successes, attempts>>
compute_undercut_from_openf1(resp, pit_df) ==
    IF resp.status = "error" THEN [raised |-> TRUE, result |-> NoResult, note |-> ""]
    ELSE IF resp.rows = <<>>
    THEN [raised |-> FALSE, result |-> NoResult,
          note |-> "OpenF1 /position returned no data; undercut proxy unavailable."]
    ELSE IF ~resp.columns_ok
    THEN [raised |-> FALSE, result |-> NoResult,
          note |-> "OpenF1 /position missing required columns; undercut proxy unavailable."]
    ELSE
      LET coerced == [i \in DOMAIN resp.rows |->
                        [driver_number |-> coerce(resp.rows[i].driver_number),
                         position      |-> coerce(resp.rows[i].position),
                         lap_number    |-> coerce(resp.rows[i].lap_number)]]
          pos_df  == SelectSeq(coerced, LAMBDA r : /\ r.driver_number # NaN
                                                   /\ r.position # NaN
                                                   /\ r.lap_number # NaN)
          teams   == {pit_df[i].team : i \in DOMAIN pit_df}
          tried   == [t \in teams |->
                        SelectSeq(pit_df, LAMBDA r : /\ r.team = t
                                                     /\ undercut_outcome(pos_df, r) # None)]
      IN  IF pos_df = <<>>
          THEN [raised |-> FALSE, result |-> NoResult,
                note |-> "OpenF1 /position had no usable lap-number rows; undercut proxy unavailable."]
          ELSE IF \E i \in DOMAIN pit_df : /\ pit_df[i].lap_number # NaN
                                           /\ pit_df[i].driver_number = NaN
          THEN \* int(row.driver_number) of a row without a number
               [raised |-> TRUE, result |-> NoResult, note |-> ""]
          ELSE [raised |-> FALSE,
                result |-> [available |-> TRUE,
                            teams     |-> [t \in {x \in teams : tried[x] # <<>>} |->
                                             <<SumFn([i \in DOMAIN tried[t] |->
                                                         undercut_outcome(pos_df, tried[t][i])]),
                                               Len(tried[t])>>]],
                note   |-> "Undercut proxy uses position change from lap before pit to best available reading within next 3 laps."]

\* (mutant) the round's tally replaces the season's
add_undercut_overwrite(acc, result) ==
    [t \in DOMAIN acc \cup DOMAIN result |->
        IF t \in DOMAIN result THEN result[t] ELSE acc[t]]

\* undercut_acc[team] += (succ, att) for every team of the round's result
add_undercut(acc, result) ==
    [t \in DOMAIN acc \cup DOMAIN result |->
        LET old == IF t \in DOMAIN acc THEN acc[t] ELSE <<0, 0>>
            new == IF t \in DOMAIN result THEN result[t] ELSE <<0, 0>>
        IN  <<old[1] + new[1], old[2] + new[2]>>]

-----------------------------------------------------------------------------
(* Chapter 4: main() *)

\* one iteration of the loop over the rounds
Ch4Round ==
    /\ export = "ch4_pitstops"
    /\ pc = "loop"
    /\ idx < Len(rounds)
    /\ LET round_info == rounds[idx + 1]
           o          == openf1[round_info.session_key]
           f          == fastf1[round_info.round]
           pit        == fetch_pit_df(o.pit)
           used_fallback == pit.df = <<>>
       IN  IF pit.raised
           THEN /\ Abort
                /\ UNCHANGED ch4Vars
           ELSE
             \E found \in (IF used_fallback THEN fetch_fastf1_pit_df(f.laps) ELSE {pit}) :
                IF found.raised
                THEN /\ Abort
                     /\ UNCHANGED ch4Vars
                ELSE IF found.df = <<>>
                THEN \* continue
                     /\ pc' = "loop"
                     /\ idx' = idx + 1
                     /\ UNCHANGED <<document, writes>>
                     /\ UNCHANGED ch4Vars
                ELSE
                  LET openf1_map == fetch_openf1_driver_map(o.drivers)
                      fastf1_map == fetch_fastf1_driver_map(f.results)
                      labelled   == with_labels(found.df, used_fallback)
                      mapped     == [i \in DOMAIN labelled |->
                                       fill_row(labelled[i], openf1_map.df, fastf1_map)]
                      undercut   == compute_undercut_from_openf1(o.position, mapped)
                  IN  /\ fallback_rounds' = IF used_fallback THEN fallback_rounds + 1
                                            ELSE fallback_rounds
                      /\ IF openf1_map.raised
                         THEN /\ Abort
                              /\ UNCHANGED <<team_by_round, race_summary, season_pit_rows,
                                             undercut_acc, undercut_note>>
                         ELSE /\ season_pit_rows' = Append(season_pit_rows, mapped)
                              /\ team_by_round' = team_by_round \o
                                    team_round_metrics(round_info.round, mapped)
                              /\ race_summary' = Append(race_summary,
                                    race_summary_row(round_info.round, mapped))
                              /\ IF undercut.raised
                                 THEN /\ Abort
                                      /\ UNCHANGED <<undercut_acc, undercut_note>>
                                 ELSE /\ pc' = "loop"
                                      /\ idx' = idx + 1
                                      /\ UNCHANGED <<document, writes>>
                                      /\ IF ~undercut.result.available
                                         THEN UNCHANGED <<undercut_acc, undercut_note>>
                                         ELSE /\ undercut_note' = undercut.note
                                              /\ undercut_acc' =
                                                    add_undercut(undercut_acc, undercut.result.teams)
    /\ UNCHANGED resolveVars
    /\ UNCHANGED providerVars
    /\ UNCHANGED passVars
    /\ UNCHANGED ch5Vars

\* (mutant) the team_season rows in the order of the groups, by team name
team_season_rows_unsorted(all_pits, acc) ==
    LET named == SelectSeq(teams_of(all_pits), LAMBDA t : strip(t) # "")
    IN  [k \in DOMAIN named |->
            LET values == team_values(all_pits, named[k])
                tally  == IF named[k] \in DOMAIN acc THEN acc[named[k]] ELSE <<0, 0>>
            IN  [team             |-> named[k],
                 avg_pit_s        |-> mean_milli(values),
                 consistency_s    |-> std_ddof0(values),
                 best_pit_s       |-> MILLI * MinOf(Range(values)),
                 n_stops          |-> Len(values),
                 undercut_success |-> IF tally[2] = 0 THEN None
                                      ELSE round_ratio(tally[1], tally[2], MILLI)]]

\* the team_season rows of the concatenated pit tables
team_season_rows(all_pits, acc) ==
    LET named == SelectSeq(teams_of(all_pits), LAMBDA t : strip(t) # "")
        rows  == [k \in DOMAIN named |->
                    LET values == team_values(all_pits, named[k])
                        tally  == IF named[k] \in DOMAIN acc THEN acc[named[k]] ELSE <<0, 0>>
                    IN  [team             |-> named[k],
                         avg_pit_s        |-> mean_milli(values),
                         consistency_s    |-> std_ddof0(values),
                         best_pit_s       |-> MILLI * MinOf(Range(values)),
                         n_stops          |-> Len(values),
                         undercut_success |-> IF tally[2] = 0 THEN None
                                              ELSE round_ratio(tally[1], tally[2], MILLI)]]
    IN  sort_by_keys(rows, [k \in DOMAIN rows |->
                              <<rows[k].avg_pit_s, string_rank(rows[k].team)>>])

\* the end of main(): the season table, the sorts and the write
Ch4Finalize ==
    /\ export = "ch4_pitstops"
    /\ pc = "loop"
    /\ idx = Len(rounds)
    /\ LET all_pits    == ConcatSeqs(season_pit_rows)
           team_season == team_season_rows(all_pits, undercut_acc)
       IN  /\ race_summary' = stable_sort(race_summary, "round")
           /\ team_by_round' =
                 sort_by_keys(team_by_round,
                              [k \in DOMAIN team_by_round |->
                                  <<team_by_round[k].round, team_by_round[k].avg_pit_s,
                                    string_rank(team_by_round[k].team)>>])
           /\ document' =
                 [rounds        |-> rounds,
                  teams         |-> SortedNames({team_season[k].team : k \in DOMAIN team_season}),
                  team_season   |-> team_season,
                  team_by_round |-> team_by_round',
                  race_summary  |-> race_summary',
                  notes         |->
                     [undercut_method |-> undercut_note,
                      data_source     |-> IF fallback_rounds > 0
                                          THEN "OpenF1 (FastF1 fallback for mapping and missing pit rows)"
                                          ELSE "OpenF1 (FastF1 fallback for mapping)"]]
    /\ writes' = writes + 1
    /\ pc' = "done"
    /\ UNCHANGED <<idx, season_pit_rows, undercut_acc, undercut_note, fallback_rounds>>
    /\ UNCHANGED resolveVars
    /\ UNCHANGED providerVars
    /\ UNCHANGED passVars
    /\ UNCHANGED ch5Vars

-----------------------------------------------------------------------------
(* Whole runs: the provider data the model enumerates *)

Failed == [status |-> "error", columns_ok |-> TRUE, rows |-> <<>>]

Rows(rows) == [status |-> "ok", columns_ok |-> TRUE, rows |-> rows]

WithoutColumns(rows) == [status |-> "ok", columns_ok |-> FALSE, rows |-> rows]

RaceSession(key, start) ==
    [session_name |-> "Race", session_key |-> key, date_start |-> start]

\* the /sessions and schedule responses of a run: two races in two rounds, one
\* race in one round, a sprint alone, a race against a schedule of round 0 alone
RunScenarios ==
    {[sessions |-> Rows(<<RaceSession("2", 20), RaceSession("1", 10)>>),
      schedule |-> Rows(<<[RoundNumber |-> "1", EventName |-> "A", EventDate |-> 30],
                          [RoundNumber |-> "2", EventName |-> "B", EventDate |-> NaT]>>)],
     [sessions |-> Rows(<<RaceSession("1", 10)>>),
      schedule |-> Rows(<<[RoundNumber |-> "1", EventName |-> "A", EventDate |-> 30]>>)],
     [sessions |-> Rows(<<[session_name |-> "Sprint", session_key |-> "1",
                            date_start |-> 10]>>),
      schedule |-> Rows(<<[RoundNumber |-> "1", EventName |-> "A", EventDate |-> 30]>>)],
     [sessions |-> Rows(<<RaceSession("1", 10)>>),
      schedule |-> Rows(<<[RoundNumber |-> "0", EventName |-> "A", EventDate |-> 30]>>)]}

\* the session keys and round numbers the providers hold data for
SessionKeysOf(resp) ==
    {to_numeric(resp.rows[i].session_key) : i \in DOMAIN resp.rows} \ {NaN}

RoundNumbersOf(resp) ==
    {to_numeric(resp.rows[i].RoundNumber) : i \in DOMAIN resp.rows} \ {NaN}

\* the /position rows of a table of samples
position_rows(df) ==
    [i \in DOMAIN df |->
        [driver_number |-> df[i].driver_number,
         position      |-> df[i].position,
         date          |-> df[i].date_ts,
         lap_number    |-> IF df[i].lap_number = NaN THEN None ELSE df[i].lap_number]]

\* samples of driver 1: a row without a position, two places gained four seconds
\* apart and three places lost
Driver1Rows ==
    <<[driver_number |-> 1, position |-> 3, date |-> 0, lap_number |-> 1],
      [driver_number |-> 1, position |-> None, date |-> 1, lap_number |-> 1],
      [driver_number |-> 1, position |-> 2, date |-> 5, lap_number |-> 2],
      [driver_number |-> 1, position |-> 1, date |-> 9, lap_number |-> 2],
      [driver_number |-> 1, position |-> 4, date |-> 13, lap_number |-> 3]>>

\* the sample times of driver 44 in a run, five seconds apart
RunTimes == {5 * (i - 1) : i \in 1..MaxRunSamples}

RunPositions == {1, 2, 3}

\* /position responses: a failed request, rows without the required columns,
\* no rows, and the samples of driver 44 alone or before those of driver 1
PositionResponses ==
    {Failed, WithoutColumns(Driver1Rows)}
    \cup {Rows(position_rows(b) \o a) :
            a \in {<<>>, Driver1Rows},
            b \in SeriesOver(44, MaxRunSamples, RunTimes, RunPositions)}

\* the position response of the runs that vary something else
DefaultPosition ==
    Rows(<<[driver_number |-> 44, position |-> 3, date |-> 0, lap_number |-> None],
           [driver_number |-> 44, position |-> 2, date |-> 1, lap_number |-> None]>>
         \o Driver1Rows)

\* /drivers responses: a failed request, no rows, and a row of driver 44 whose
\* acronym and team are present, empty, blank, null or missing
DriversResponses ==
    {Failed, Rows(<<>>)}
    \cup {Rows(<<[driver_number |-> 44, name_acronym |-> a, team_name |-> t]>>) :
            a \in {"HAM", "", NullText}, t \in {"Ferrari", " ", MissingText}}

DefaultDrivers ==
    Rows(<<[driver_number |-> 44, name_acronym |-> "HAM", team_name |-> "Ferrari"]>>)

\* FastF1 race results: a failed load, and a row of driver 44 whose abbreviation
\* and team are present or empty
ResultsResponses ==
    {Failed}
    \cup {Rows(<<[DriverNumber |-> 44, Abbreviation |-> a, TeamName |-> t]>>) :
            a \in {"VER", ""}, t \in {"Red Bull", ""}}

DefaultResults ==
    Rows(<<[DriverNumber |-> 44, Abbreviation |-> "HAM", TeamName |-> "Ferrari"],
           [DriverNumber |-> 1, Abbreviation |-> "VER", TeamName |-> "Red Bull"]>>)

\* /car_data responses: a failed request, no rows, an active DRS sample of driver
\* 44, rows without the DRS column, and a sample of driver 44 that is inactive,
\* without a DRS value or long after the pass, and a sample of a driver who
\* makes no pass
CarDataResponses ==
    {Failed, Rows(<<>>),
     Rows(<<[driver_number |-> 44, drs |-> 12, date |-> 0]>>),
     WithoutColumns(<<[driver_number |-> 44, drs |-> 12, date |-> 0]>>),
     Rows(<<[driver_number |-> 44, drs |-> 0, date |-> 0]>>),
     Rows(<<[driver_number |-> 44, drs |-> None, date |-> 0]>>),
     Rows(<<[driver_number |-> 44, drs |-> 12, date |-> 9]>>),
     Rows(<<[driver_number |-> 63, drs |-> 12, date |-> 0]>>)}

DefaultCarData == Rows(<<>>)

\* FastF1 lap tables: two laps of one driver
DefaultLaps ==
    Rows(<<[Driver |-> "HAM", DriverNumber |-> 44, Team |-> "Ferrari", LapNumber |-> 1,
            PitInTime |-> NaT, PitOutTime |-> NaT],
           [Driver |-> "HAM", DriverNumber |-> 44, Team |-> "Ferrari", LapNumber |-> 2,
            PitInTime |-> NaT, PitOutTime |-> NaT]>>)

\* most records of an enumerated OpenF1 /pit response
MaxStops == 2

\* an OpenF1 /pit response: [status, columns, rows]
PitFailed == [status |-> "error", columns |-> {}, rows |-> <<>>]

PitRows(columns, rows) == [status |-> "ok", columns |-> columns, rows |-> rows]

PitColumns == {"driver_number", "lap_number", "pit_duration"}

PitRecord(d, lap, duration) ==
    [driver_number |-> d, lap_number |-> lap, pit_duration |-> duration,
     stop_duration |-> None, pit_time |-> None]

\* pit durations in seconds: missing, negative, zero, valid, and the two values
\* around the upper bound of the filter
PitDurations == {None, 0 - 5, 0, 2, MAX_PIT_S - 1, MAX_PIT_S}

\* at most n pit records: the first of driver 44, the later ones of driver 44 or 1
RECURSIVE PitSeqs(_)
PitSeqs(n) ==
    IF n = 0 THEN {<<>>}
    ELSE LET shorter == PitSeqs(n - 1)
             longest == {s \in shorter : Len(s) = n - 1}
         IN  shorter \cup
             {Append(s, PitRecord(d, n + 1, t)) :
                s \in longest, d \in (IF n = 1 THEN {44} ELSE {1, 44}), t \in PitDurations}

\* /pit responses: a failed request, no duration column, the second candidate
\* column before the third, no driver numbers, and the enumerated records
PitResponses ==
    {PitFailed,
     PitRows({"driver_number", "lap_number"}, <<PitRecord(44, 2, 2)>>),
     PitRows({"driver_number", "lap_number", "stop_duration", "pit_time"},
             <<[driver_number |-> 44, lap_number |-> 2, pit_duration |-> None,
                stop_duration |-> 2, pit_time |-> MAX_PIT_S]>>),
     PitRows({"lap_number", "pit_duration"}, <<PitRecord(44, 2, 2)>>)}
    \cup {PitRows(PitColumns, s) : s \in PitSeqs(MaxStops)}

DefaultPit == PitRows(PitColumns, <<PitRecord(44, 2, 2), PitRecord(1, 2, 3)>>)

\* a FastF1 lap row
Lap(driver, number, team, lap, pit_in, pit_out) ==
    [Driver |-> driver, DriverNumber |-> number, Team |-> team, LapNumber |-> lap,
     PitInTime |-> pit_in, PitOutTime |-> pit_out]

\* the pit-entry time of the enumerated stops, in seconds of session time
PitEntry == 10

\* FastF1 lap tables: a failed load, no laps, laps without the pit columns, a
\* lap without a number, a pit exit on the first lap, stops of varied timing and
\* stops whose driver number or team is missing
LapsResponses ==
    {Failed, Rows(<<>>),
     WithoutColumns(<<Lap("HAM", 44, "Ferrari", 1, NaT, NaT)>>),
     Rows(<<Lap("HAM", 44, "Ferrari", NaN, NaT, NaT)>>),
     Rows(<<Lap("HAM", 44, "Ferrari", 1, NaT, PitEntry + 2),
            Lap("HAM", 44, "Ferrari", 2, NaT, NaT)>>)}
    \cup {Rows(<<Lap("HAM", 44, "Ferrari", 1, pit_in, NaT),
                 Lap("HAM", 44, "Ferrari", 2, NaT, pit_out)>>) :
            pit_in \in {NaT, PitEntry},
            pit_out \in {NaT, PitEntry, PitEntry + 2,
                         PitEntry + MAX_PIT_S - 1, PitEntry + MAX_PIT_S}}
    \cup {Rows(<<Lap("HAM", number, "Ferrari", 1, PitEntry, NaT),
                 Lap("HAM", number, team, 2, NaT, PitEntry + 2),
                 Lap("VER", 1, "Red Bull", 1, PitEntry, NaT),
                 Lap("VER", 1, "Red Bull", 2, NaT, PitEntry + 3)>>) :
            number \in {44, None},
            team \in {"Ferrari", "", " ", NullText, MissingText}}

\* a /position row with a lap number
Reading(d, lap, position) ==
    [driver_number |-> d, position |-> position, date |-> lap, lap_number |-> lap]

\* /position responses of the undercut proxy: a failed request, no rows, no lap
\* column, no lap numbers, and readings of driver 44 around a stop on lap 2
UndercutResponses ==
    {Failed, Rows(<<>>), WithoutColumns(<<Reading(44, 1, 3)>>),
     Rows(<<[driver_number |-> 44, position |-> 3, date |-> 0, lap_number |-> None]>>)}
    \cup {Rows(SelectSeq(<<Reading(44, 1, before), Reading(44, 3, third),
                           Reading(44, 4, fourth)>>,
                         LAMBDA r : r.position # None)) :
            before \in {None, 3}, third \in {None, 2, 3}, fourth \in {None, 1, 4}}

\* the provider data of one round: OpenF1 by session key, FastF1 by round number
RoundData(pit, position, drivers, car_data, results, laps) ==
    [o |-> [pit |-> pit, position |-> position, drivers |-> drivers,
            car_data |-> car_data],
     f |-> [results |-> results, laps |-> laps]]

DefaultRound ==
    RoundData(DefaultPit, DefaultPosition, DefaultDrivers, DefaultCarData,
              DefaultResults, DefaultLaps)

\* a round in which driver 44 loses a place and neither provider knows a driver
LosingRound ==
    RoundData(DefaultPit,
              Rows(<<[driver_number |-> 44, position |-> 1, date |-> 0, lap_number |-> None],
                     [driver_number |-> 44, position |-> 2, date |-> 5, lap_number |-> None]>>
                   \o Driver1Rows),
              Rows(<<>>), DefaultCarData, Failed, DefaultLaps)

\* a round in which driver 44 stops on lap 2 and is a place ahead on lap 3
UndercutRound ==
    RoundData(DefaultPit, Rows(<<Reading(44, 1, 3), Reading(44, 3, 2)>>), DefaultDrivers,
              DefaultCarData, DefaultResults, DefaultLaps)

\* a round without pit records in either provider
EmptyRound ==
    RoundData(PitRows(PitColumns, <<>>), Rows(<<>>), DefaultDrivers, DefaultCarData,
              DefaultResults, DefaultLaps)

\* one place gained by driver 44 in samples that carry the given lap number
LapPositions(lap) ==
    Rows(<<[driver_number |-> 44, position |-> 3, date |-> 0, lap_number |-> lap],
           [driver_number |-> 44, position |-> 2, date |-> 5, lap_number |-> lap]>>)

\* FastF1 lap tables behind the lap count: two laps, a failed load, no laps, no
\* Driver column
LapCountResponses ==
    {DefaultLaps, Failed, Rows(<<>>), WithoutColumns(DefaultLaps.rows)}

\* driver 44 loses a place: a round without a pass
NoPassPosition ==
    Rows(<<[driver_number |-> 44, position |-> 1, date |-> 0, lap_number |-> 1],
           [driver_number |-> 44, position |-> 2, date |-> 5, lap_number |-> 2]>>)

\* a round in which drivers 44 and 1 gain one place each and the roster gives
\* both the same acronym
TwinRound ==
    RoundData(DefaultPit,
              Rows(<<[driver_number |-> 44, position |-> 2, date |-> 0, lap_number |-> 1],
                     [driver_number |-> 44, position |-> 1, date |-> 5, lap_number |-> 2],
                     [driver_number |-> 1, position |-> 4, date |-> 0, lap_number |-> 1],
                     [driver_number |-> 1, position |-> 3, date |-> 5, lap_number |-> 2]>>),
              Rows(<<[driver_number |-> 44, name_acronym |-> "HAM", team_name |-> "Ferrari"],
                     [driver_number |-> 1, name_acronym |-> "HAM", team_name |-> "Red Bull"]>>),
              DefaultCarData, Failed, DefaultLaps)

\* the first round of a chapter 5 run: the runs vary the position samples, or
\* the two driver rosters, or the car data and the lap table, or the lap
\* numbers of the samples and the lap table, or the car data of a round
\* without a pass; or two drivers share a code
Ch5FirstRounds ==
    {RoundData(DefaultPit, p, DefaultDrivers, DefaultCarData, DefaultResults, DefaultLaps) :
        p \in PositionResponses}
    \cup {RoundData(DefaultPit, DefaultPosition, d, DefaultCarData, r, DefaultLaps) :
            d \in DriversResponses, r \in ResultsResponses}
    \cup {RoundData(DefaultPit, DefaultPosition, DefaultDrivers, c, DefaultResults, l) :
            c \in CarDataResponses, l \in {DefaultLaps, Failed}}
    \cup {RoundData(DefaultPit, LapPositions(lap), DefaultDrivers, DefaultCarData,
                    DefaultResults, l) :
            lap \in {None, 0, 2}, l \in LapCountResponses}
    \cup {RoundData(DefaultPit, NoPassPosition, DefaultDrivers, c, DefaultResults,
                    DefaultLaps) : c \in CarDataResponses}
    \cup {TwinRound}

\* the first round of a chapter 4 run: the runs vary the pit records, or the lap
\* table of the fallback and the position data, or the two driver rosters, or
\* the position readings of the undercut proxy
Ch4FirstRounds ==
    {RoundData(p, DefaultPosition, DefaultDrivers, DefaultCarData, DefaultResults,
               DefaultLaps) : p \in PitResponses}
    \cup {RoundData(PitRows(PitColumns, <<PitRecord(44, 2, MAX_PIT_S)>>), p, DefaultDrivers,
                    DefaultCarData, DefaultResults, l) :
            p \in {Rows(<<>>), DefaultPosition}, l \in LapsResponses}
    \cup {RoundData(DefaultPit, DefaultPosition, d, DefaultCarData, r, DefaultLaps) :
            d \in DriversResponses, r \in ResultsResponses}
    \cup {RoundData(DefaultPit, p, DefaultDrivers, DefaultCarData, DefaultResults,
                    DefaultLaps) : p \in UndercutResponses}

\* the provider data of a run: the first round as given, every other round alike
Worlds(keys, numbers, first_rounds, other_rounds) ==
    {[openf1 |-> [k \in keys |-> IF k = 1 THEN a.o ELSE b.o],
      fastf1 |-> [n \in numbers |-> IF n = 1 THEN a.f ELSE b.f]] :
        a \in first_rounds, b \in other_rounds}

\* a whole run of an export
InitRun(first_rounds, other_rounds) ==
    /\ pc = "start"
    /\ \E sc \in RunScenarios :
          /\ sessions_resp = sc.sessions
          /\ schedule_resp = sc.schedule
    /\ rounds = <<>>
    /\ \E w \in Worlds(SessionKeysOf(sessions_resp), RoundNumbersOf(schedule_resp),
                       first_rounds, other_rounds) :
          /\ openf1 = w.openf1
          /\ fastf1 = w.fastf1
    /\ FirstRun
    /\ LoopStart
    /\ Ch5Start
    /\ Ch4Start

\* a whole run of the chapter 5 export
InitCh5 ==
    /\ export = "ch5_overtakes"
    /\ InitRun(Ch5FirstRounds, {DefaultRound, LosingRound})

NextCh5 ==
    \/ ResolveRounds
    \/ Ch5Round
    \/ Ch5Finalize

SpecCh5 == InitCh5 /\ [][NextCh5]_vars

\* the texts of the session keys and round numbers of a season, and its events
KeyTexts == <<"1", "2", "3", "4">>

EventNames == <<"A", "B", "C", "D">>

\* laps of a round of the season
SeasonLaps == 100

\* a round in which driver d gains g places at once, over SeasonLaps laps
GainRound(d, g) ==
    RoundData(DefaultPit,
              Rows(<<[driver_number |-> d, position |-> g + 1, date |-> 0, lap_number |-> 1],
                     [driver_number |-> d, position |-> 1, date |-> 10,
                      lap_number |-> SeasonLaps]>>),
              DefaultDrivers, DefaultCarData, DefaultResults, DefaultLaps)

\* a round without position records: chapter 5 skips it, chapter 4 has no
\* undercut result for it
SkippedRound ==
    RoundData(DefaultPit, Rows(<<>>), DefaultDrivers, DefaultCarData, DefaultResults,
              DefaultLaps)

\* the rounds of a season: pass rates 0, 0.02, 0.05 and 0.08 by driver 44, 0.02
\* by driver 1, and a skipped round
SeasonRoundTypes ==
    {GainRound(44, g) : g \in {0, 2, 5, 8}}
    \cup {GainRound(1, 2), SkippedRound}

\* a whole run of the chapter 5 export over SeasonRounds rounds
InitSeason ==
    /\ export = "ch5_overtakes"
    /\ pc = "start"
    /\ sessions_resp = Rows([i \in 1..SeasonRounds |-> RaceSession(KeyTexts[i], 10 * i)])
    /\ schedule_resp = Rows([i \in 1..SeasonRounds |->
                               [RoundNumber |-> KeyTexts[i], EventName |-> EventNames[i],
                                EventDate |-> 30 * i]])
    /\ rounds = <<>>
    /\ \E t \in [1..SeasonRounds -> SeasonRoundTypes] :
          /\ openf1 = [k \in 1..SeasonRounds |-> t[k].o]
          /\ fastf1 = [n \in 1..SeasonRounds |-> t[n].f]
    /\ FirstRun
    /\ LoopStart
    /\ Ch5Start
    /\ Ch4Start

SpecSeason == InitSeason /\ [][NextCh5]_vars

\* a whole run of the chapter 4 export
InitCh4 ==
    /\ export = "ch4_pitstops"
    /\ InitRun(Ch4FirstRounds, {DefaultRound, EmptyRound, UndercutRound, SkippedRound})

NextCh4 ==
    \/ ResolveRounds
    \/ Ch4Round
    \/ Ch4Finalize

SpecCh4 == InitCh4 /\ [][NextCh4]_vars

\* a whole run of either export
InitExports == InitCh4 \/ InitCh5

NextExports ==
    \/ ResolveRounds
    \/ Ch4Round
    \/ Ch4Finalize
    \/ Ch5Round
    \/ Ch5Finalize

SpecExports == InitExports /\ [][NextExports]_vars

\* the export is run again on the same provider data: main() starts anew, the
\* document of the first run stays on disk until the second run writes its own
Rerun ==
    /\ pc = "done"
    /\ outputs = <<>>
    /\ outputs' = <<document>>
    /\ pc' = "start"
    /\ rounds' = <<>>
    /\ idx' = 0
    /\ position_df' = <<>>
    /\ pass_events' = <<>>
    /\ driver_stats' = <<>>
    /\ races' = <<>>
    /\ driver_acc' = [keys |-> <<>>, val |-> <<>>]
    /\ driver_meta' = <<>>
    /\ drs_unavailable' = FALSE
    /\ team_by_round' = <<>>
    /\ race_summary' = <<>>
    /\ season_pit_rows' = <<>>
    /\ undercut_acc' = <<>>
    /\ undercut_note' = "Undercut proxy unavailable."
    /\ fallback_rounds' = 0
    /\ writes' = 0
    /\ UNCHANGED <<export, openf1, fastf1, sessions_resp, schedule_resp, document>>

\* two runs of either export on the same provider data
NextRerun ==
    \/ ResolveRounds
    \/ Ch4Round
    \/ Ch4Finalize
    \/ Ch5Round
    \/ Ch5Finalize
    \/ Rerun

SpecRerun == InitExports /\ [][NextRerun]_vars

\* the second run consumes the resolved rounds in another order: the loop of
\* main() over any arrangement of the list the Round Resolver returns
ResolveReordered ==
    /\ pc = "start"
    /\ outputs # <<>>
    /\ \E out \in resolve_rounds_with_sessions(sessions_resp, schedule_resp) :
          /\ ~out.raised
          /\ \E p \in Perms(Len(out.rounds)) :
                rounds' = [i \in DOMAIN out.rounds |-> out.rounds[p[i]]]
          /\ pc' = "loop"
    /\ UNCHANGED <<sessions_resp, schedule_resp, providerVars, idx, document, writes>>
    /\ UNCHANGED passVars
    /\ UNCHANGED ch5Vars
    /\ UNCHANGED ch4Vars

\* two runs of either export on the same provider data, the second over the
\* rounds in any order
NextReorder ==
    \/ ResolveRounds
    \/ ResolveReordered
    \/ Ch4Round
    \/ Ch4Finalize
    \/ Ch5Round
    \/ Ch5Finalize
    \/ Rerun

SpecReorder == InitExports /\ [][NextReorder]_vars

-----------------------------------------------------------------------------
(* Claims about the Round Resolver *)

\* the distinct numeric keys of the response's race sessions
ValidSessionKeys ==
    {to_numeric(r.session_key) : r \in
        {x \in Range(sessions_resp.rows) :
            lower(x.session_name) = "race" /\ to_numeric(x.session_key) # NaN}}

\* the distinct positive round numbers of the schedule
ValidRoundNumbers ==
    {to_numeric(r.RoundNumber) : r \in
        {x \in Range(schedule_resp.rows) : to_numeric(x.RoundNumber) > 0}}

\* start time a is not later than b; a missing start time is later than every dated one
StartLeq(a, b) == (b = NaT) \/ (a # NaT /\ a <= b)

\* the earliest start time of the race sessions with key k
EarliestStart(k) ==
    LET starts == {r.date_start : r \in
                      {x \in Range(sessions_resp.rows) :
                          lower(x.session_name) = "race" /\ to_numeric(x.session_key) = k}}
    IN  CHOOSE s \in starts : \A t \in starts : StartLeq(s, t)

\* C4: when the Round Resolver returns, it returns exactly min(S, R) rounds, S the
\* number of distinct valid race-session keys and R the number of distinct
\* positive round numbers.
C4_OutputLength ==
    (pc = "loop") =>
        Len(rounds) = Min(Cardinality(ValidSessionKeys), Cardinality(ValidRoundNumbers))

\* C4 witness: the resolver returned one round from two valid sessions and a
\* schedule of two rows of which one round number is usable
C4_Witness ==
    /\ pc = "loop"
    /\ Len(rounds) = 1
    /\ Cardinality(ValidSessionKeys) = 2
    /\ Cardinality(ValidRoundNumbers) = 1
    /\ Len(schedule_resp.rows) = 2

\* C5: the i-th returned round carries the i-th smallest positive round number
\* with the event name and date of a schedule row of that number, and the key of
\* the i-th race session by earliest start time; round numbers are positive and
\* strictly increasing and session keys are unique.
C5_PositionalPairing ==
    (pc = "loop") =>
        /\ \A i \in DOMAIN rounds :
              /\ rounds[i].round > 0
              /\ \E r \in Range(schedule_resp.rows) :
                    /\ to_numeric(r.RoundNumber) = rounds[i].round
                    /\ r.EventName = rounds[i].event
                    /\ timestamp_to_date(r.EventDate) = rounds[i].date
              /\ rounds[i].session_key \in ValidSessionKeys
        /\ \A i, j \in DOMAIN rounds : i < j =>
              /\ rounds[i].round < rounds[j].round
              /\ rounds[i].session_key # rounds[j].session_key
              /\ StartLeq(EarliestStart(rounds[i].session_key),
                          EarliestStart(rounds[j].session_key))
        /\ \A i \in DOMAIN rounds :
              /\ \A n \in ValidRoundNumbers \ {rounds[j].round : j \in DOMAIN rounds} :
                    rounds[i].round < n
              /\ \A k \in ValidSessionKeys \ {rounds[j].session_key : j \in DOMAIN rounds} :
                    StartLeq(EarliestStart(rounds[i].session_key), EarliestStart(k))

\* C5 witness: two rounds were returned from responses listed in the opposite of
\* chronological order, so the pairing follows the sort and not the listing
C5_Witness ==
    /\ pc = "loop"
    /\ Len(rounds) = 2
    /\ to_numeric(schedule_resp.rows[1].RoundNumber) = 2
    /\ sessions_resp.rows[1].date_start = 20
    /\ sessions_resp.rows[2].date_start = 10
    /\ rounds[1].round = 1
    /\ rounds[1].session_key = to_numeric(sessions_resp.rows[2].session_key)

-----------------------------------------------------------------------------
(* Claims about overtake inference *)

\* the drivers of the round's position table and each driver's samples
DriversOf(df) == {df[i].driver_number : i \in DOMAIN df}

GroupOf(df, d) == SelectSeq(df, LAMBDA r : r.driver_number = d)

\* the timestamp orders of a driver's samples
TimeOrders(df, d) == sort_values(GroupOf(df, d), "date_ts")

\* the PassEvents of driver d among the events evs
EventsOf(evs, d) == SelectSeq(evs, LAMBDA e : e.driver_number = d)

\* a gap between a gain and an earlier emitted event that suppresses the gain:
\* up to and including the cooldown (inclusive), or strictly less than it
Suppresses(gap, inclusive) ==
    IF inclusive THEN gap <= PASS_COOLDOWN_S ELSE gap < PASS_COOLDOWN_S

\* sample i of the ordered samples o is a gain that no earlier emitted event suppresses
RECURSIVE Emits(_, _, _)
Emits(o, i, inclusive) ==
    /\ i >= 2
    /\ o[i - 1].position - o[i].position >= 1
    /\ \A j \in 2..(i - 1) :
          Emits(o, j, inclusive) => ~Suppresses(o[i].date_ts - o[j].date_ts, inclusive)

\* the events the rule gives for the ordered samples o
ExpectedEvents(o, inclusive) ==
    Pick([i \in DOMAIN o |->
            [driver_number |-> o[i].driver_number,
             date_ts       |-> o[i].date_ts,
             passes_gained |-> IF i >= 2 THEN o[i - 1].position - o[i].position ELSE 0]],
         {i \in DOMAIN o : Emits(o, i, inclusive)})

\* the events and passes_made of every driver are those of the rule
FollowsCooldownRule(inclusive) ==
    \A d \in DriversOf(position_df) :
        \E o \in TimeOrders(position_df, d) :
            /\ EventsOf(pass_events, d) = ExpectedEvents(o, inclusive)
            /\ driver_stats[d].passes_made = SumGained(ExpectedEvents(o, inclusive))

\* C8 as stated: walking a driver's samples in timestamp order, a decrease of
\* N places emits one PassEvent of magnitude N unless an earlier emitted event
\* of the driver lies at most 8 seconds before it, and only emitted gains are
\* added to passes_made.
C8_CooldownInclusive ==
    (pc = "inferred") => FollowsCooldownRule(TRUE)

\* C8 as amended: the gain is suppressed only when an earlier emitted event of
\* the driver lies strictly less than 8 seconds before it; a gain exactly 8
\* seconds after the last emitted event is emitted.
C8_CooldownExclusive ==
    (pc = "inferred") => FollowsCooldownRule(FALSE)

\* C8 witness: driver 44 gains a place at 1 s (emitted), at 5 s (suppressed)
\* and at 9 s (emitted, exactly 8 s after the first event)
C8_Witness ==
    /\ pc = "inferred"
    /\ GroupOf(position_df, 44) =
          <<[driver_number |-> 44, position |-> 4, date_ts |-> 0, lap_number |-> NaN],
            [driver_number |-> 44, position |-> 3, date_ts |-> 1, lap_number |-> NaN],
            [driver_number |-> 44, position |-> 2, date_ts |-> 5, lap_number |-> NaN],
            [driver_number |-> 44, position |-> 1, date_ts |-> 9, lap_number |-> NaN]>>
    /\ Len(EventsOf(pass_events, 44)) = 2
    /\ driver_stats[44].passes_made = 2

\* C9: for every driver of the round, passes_made is the sum of the magnitudes
\* of the driver's emitted PassEvents, every PassEvent has magnitude >= 1,
\* passes_made >= 0, and it is 0 for a driver whose position never decreases
\* between consecutive samples (a single sample, or losses only).
C9_PassesMadeIsSumOfEvents ==
    (pc = "inferred") =>
        /\ DOMAIN driver_stats = DriversOf(position_df)
        /\ \A i \in DOMAIN pass_events :
              /\ pass_events[i].passes_gained >= 1
              /\ pass_events[i].driver_number \in DriversOf(position_df)
        /\ \A d \in DriversOf(position_df) :
              /\ driver_stats[d].passes_made = SumGained(EventsOf(pass_events, d))
              /\ driver_stats[d].passes_made >= 0
              /\ (\A o \in TimeOrders(position_df, d) :
                    \A i \in 2..Len(o) : o[i - 1].position <= o[i].position)
                 => driver_stats[d].passes_made = 0

\* C9 witness: a driver with one event of magnitude 2 and one of magnitude 1
\* has passes_made 3, beside a driver who only lost places and has 0
C9_Witness ==
    /\ pc = "inferred"
    /\ 1 \in DOMAIN driver_stats
    /\ 44 \in DOMAIN driver_stats
    /\ driver_stats[44].passes_made = 3
    /\ Len(EventsOf(pass_events, 44)) = 2
    /\ \E d \in DOMAIN driver_stats :
          /\ driver_stats[d].passes_made = 0
          /\ driver_stats[d].positions_gained_net < 0

-----------------------------------------------------------------------------
(* Claims about the season totals of the chapter 5 export *)

\* the drivers the runs have position samples of
RunDrivers == {1, 44}

\* the /position records of driver d in the k-th round that carry a position
SamplesOf(k, d) ==
    LET resp == openf1[rounds[k].session_key].position
    IN  IF resp.status = "ok" /\ resp.columns_ok
        THEN {r \in Range(resp.rows) : r.driver_number = d /\ r.position # None}
        ELSE {}

\* the position of d's earliest sample minus the position of d's latest sample
RoundNet(k, d) ==
    LET earliest == CHOOSE r \in SamplesOf(k, d) : \A x \in SamplesOf(k, d) : r.date <= x.date
        latest   == CHOOSE r \in SamplesOf(k, d) : \A x \in SamplesOf(k, d) : x.date <= r.date
    IN  earliest.position - latest.position

\* the rounds gone through so far in which d has position samples
RoundsWith(d) == {k \in 1..idx : SamplesOf(k, d) # {}}

\* C10: in every round a driver's positions_gained_net is the position in the
\* earliest sample minus the position in the latest sample, whatever events the
\* cooldown let through, and the season value of a driver is the sum of the
\* per-round values over the processed rounds in which the driver has samples
C10_NetPositionsGained ==
    (pc # "start") =>
        \A d \in RunDrivers :
            /\ (idx \in RoundsWith(d)) =>
                  /\ d \in DOMAIN driver_stats
                  /\ driver_stats[d].positions_gained_net = RoundNet(idx, d)
            /\ (RoundsWith(d) = {}) <=> (d \notin DOMAIN driver_acc.val)
            /\ (RoundsWith(d) # {}) =>
                  driver_acc.val[d].positions_gained_net
                     = SumFn([k \in RoundsWith(d) |-> RoundNet(k, d)])
            /\ (pc = "done" /\ RoundsWith(d) # {}) =>
                  \E i \in DOMAIN document.driver_passing :
                      /\ document.driver_passing[i].positions_gained_net
                            = driver_acc.val[d].positions_gained_net
                      /\ document.driver_passing[i].passes_made
                            = driver_acc.val[d].passes_made

\* C10 witness: driver 44 gains two places in the first round and loses one in
\* the second: the season net is 1 beside 2 passes made, and the net of driver 1 is
\* negative beside passes made
C10_Witness ==
    /\ pc = "done"
    /\ idx = 2
    /\ RoundsWith(44) = {1, 2}
    /\ RoundNet(1, 44) = 2
    /\ RoundNet(2, 44) = 0 - 1
    /\ driver_acc.val[44].positions_gained_net = 1
    /\ driver_acc.val[44].passes_made = 2
    /\ 1 \in DOMAIN driver_acc.val
    /\ driver_acc.val[1].positions_gained_net < 0
    /\ driver_acc.val[1].passes_made > 0

-----------------------------------------------------------------------------
(* Claims about the pit events of the chapter 4 export *)

\* a duration in seconds, and a statistic in thousandths, strictly between 0 and 120
ValidSeconds(s) == s > 0 /\ s < 120

ValidMilli(v) == v > 0 /\ v < 120 * 1000

\* the resolved round of round number n
RoundNumbered(n) == CHOOSE r \in Range(rounds) : r.round = n

\* the mapped pit table of round number n
PitTableOf(n) ==
    season_pit_rows[CHOOSE j \in DOMAIN race_summary : race_summary[j].round = n]

\* the pit row r of round n is a pit record of OpenF1 or an exit after an entry
\* in the FastF1 laps of the round
FromProvider(n, r) ==
    LET pit  == openf1[RoundNumbered(n).session_key].pit
        laps == fastf1[n].laps
    IN  \/ /\ pit.status = "ok"
           /\ \E i \in DOMAIN pit.rows :
                 /\ pit.rows[i].driver_number = r.driver_number
                 /\ r.pit_s \in {pit.rows[i].pit_duration, pit.rows[i].stop_duration,
                                 pit.rows[i].pit_time}
        \/ /\ laps.status = "ok"
           /\ \E a, b \in DOMAIN laps.rows :
                 /\ laps.rows[a].Driver = laps.rows[b].Driver
                 /\ laps.rows[b].Driver = r.driver
                 /\ laps.rows[b].LapNumber = r.lap_number
                 /\ laps.rows[a].LapNumber = r.lap_number - 1
                 /\ laps.rows[a].PitInTime # NaT
                 /\ laps.rows[b].PitOutTime # NaT
                 /\ r.pit_s = laps.rows[b].PitOutTime - laps.rows[a].PitInTime

\* the number of rows of a table that carry the team
StopsOf(table, team) == Len(SelectSeq(table, LAMBDA r : r.team = team))

\* C1: every pit event behind the per-round team metrics, the race summary and
\* the season team table has 0 < duration_seconds < 120, from OpenF1 pit records
\* and from the FastF1 lap fallback alike; the tables count no other event
C1_PitDurationsValid ==
    (export = "ch4_pitstops" /\ pc # "start") =>
        /\ Len(race_summary) = Len(season_pit_rows)
        /\ \A j \in DOMAIN season_pit_rows :
              /\ season_pit_rows[j] # <<>>
              /\ race_summary[j].total_stops = Len(season_pit_rows[j])
              /\ ValidMilli(race_summary[j].fastest_pit_s)
              /\ ValidMilli(race_summary[j].median_pit_s)
              /\ \A i \in DOMAIN season_pit_rows[j] :
                    /\ ValidSeconds(season_pit_rows[j][i].pit_s)
                    /\ FromProvider(race_summary[j].round, season_pit_rows[j][i])
        /\ \A k \in DOMAIN team_by_round :
              /\ team_by_round[k].n_stops
                    = StopsOf(PitTableOf(team_by_round[k].round), team_by_round[k].team)
              /\ ValidMilli(team_by_round[k].avg_pit_s)
              /\ ValidMilli(team_by_round[k].best_pit_s)
              /\ ValidMilli(team_by_round[k].p25_pit_s)
              /\ ValidMilli(team_by_round[k].p75_pit_s)
        /\ (pc = "done") =>
              \A k \in DOMAIN document.team_season :
                  /\ document.team_season[k].n_stops
                        = StopsOf(ConcatSeqs(season_pit_rows), document.team_season[k].team)
                  /\ ValidMilli(document.team_season[k].avg_pit_s)
                  /\ ValidMilli(document.team_season[k].best_pit_s)

\* C1 witness: the only pit record of OpenF1 for the first round lasts 120
\* seconds and is discarded, the lap fallback finds a stop of 119 seconds, and
\* that stop is the round's fastest and the best of its team in the season table
C1_Witness ==
    /\ export = "ch4_pitstops"
    /\ pc = "done"
    /\ fallback_rounds = 1
    /\ Len(race_summary) >= 1
    /\ Len(openf1[1].pit.rows) = 1
    /\ openf1[1].pit.rows[1].pit_duration = 120
    /\ race_summary[1].round = 1
    /\ race_summary[1].total_stops = 1
    /\ race_summary[1].fastest_pit_s = 119 * 1000
    /\ \E k \in DOMAIN document.team_season :
          /\ document.team_season[k].team = "Ferrari"
          /\ document.team_season[k].n_stops = 1
          /\ document.team_season[k].best_pit_s = 119 * 1000

-----------------------------------------------------------------------------
(* Claims about provider errors and the empty round list *)

\* a provider request of round r, among those the running export makes, fails
FailedCallIn(r) ==
    LET o == openf1[r.session_key]
        f == fastf1[r.round]
    IN  IF export = "ch4_pitstops"
        THEN "error" \in {o.pit.status, o.drivers.status, o.position.status,
                          f.results.status, f.laps.status}
        ELSE "error" \in {o.position.status, o.drivers.status, o.car_data.status,
                          f.results.status, f.laps.status}

\* C2: a provider call that fails while a round is processed does not abort the
\* run: no run is aborted in a round one of whose provider requests fails
C2_ProviderErrorsContained ==
    (pc = "aborted" /\ idx < Len(rounds)) => ~FailedCallIn(rounds[idx + 1])

\* the race sessions with a numeric key, and the schedule rounds of positive number
UsableSessions ==
    IF sessions_resp.status # "ok" THEN {}
    ELSE {i \in DOMAIN sessions_resp.rows :
            /\ lower(sessions_resp.rows[i].session_name) = "race"
            /\ to_numeric(sessions_resp.rows[i].session_key) # NaN}

UsableRounds ==
    IF schedule_resp.status # "ok" THEN {}
    ELSE {i \in DOMAIN schedule_resp.rows :
            to_numeric(schedule_resp.rows[i].RoundNumber) > 0}

\* C3: when either provider yields no usable entry for the round list, the Round
\* Resolver aborts the run; the run does not go on with an empty round list
C3_FailFastWithoutUsableEntries ==
    (pc # "start" /\ (UsableSessions = {} \/ UsableRounds = {})) => pc = "aborted"

-----------------------------------------------------------------------------
(* Claims about driver and team labels *)

\* the labels that resolve nothing
BlankLabels == {"", " ", "nan", NullText, MissingText}

\* C7: every row of the chapter 4 and chapter 5 documents carries non-empty
\* driver and team labels, never an empty string, a null or the string 'nan'
C7_LabelsResolved ==
    (pc = "done") =>
        IF export = "ch4_pitstops"
        THEN /\ \A k \in DOMAIN document.team_season :
                   document.team_season[k].team \notin BlankLabels
             /\ \A k \in DOMAIN document.team_by_round :
                   document.team_by_round[k].team \notin BlankLabels
             /\ \A k \in DOMAIN document.race_summary :
                   /\ document.race_summary[k].fastest_team \notin BlankLabels
                   /\ document.race_summary[k].fastest_driver \notin BlankLabels
        ELSE \A k \in DOMAIN document.driver_passing :
                 /\ document.driver_passing[k].driver \notin BlankLabels
                 /\ document.driver_passing[k].team \notin BlankLabels

\* the value of a field in a provider's mapping, "" without an entry of the driver
ValueIn(mapping, d, field) == IF d \in DOMAIN mapping THEN mapping[d][field] ELSE ""

\* the first mapping's value when non-empty, otherwise the second's when
\* non-empty, otherwise the fallback
FieldByField(first, second, d, field, fallback) ==
    IF ValueIn(first, d, field) # "" THEN ValueIn(first, d, field)
    ELSE IF ValueIn(second, d, field) # "" THEN ValueIn(second, d, field)
    ELSE fallback

\* the two mappings of round number n in chapter 4
OpenF1Map4(n) == fetch_openf1_driver_map(openf1[RoundNumbered(n).session_key].drivers).df

FastF1Map4(n) == fetch_fastf1_driver_map(fastf1[n].results)

\* the two mappings of the k-th round in chapter 5
OpenF1Map5(k) == driver_map_openf1(openf1[rounds[k].session_key].drivers).df

FastF1Map5(k) == driver_map_fastf1(fastf1[rounds[k].round].results)

\* the pit rows of round number n are OpenF1 pit records: every label is resolved
PitRowsFromOpenF1(n) == fetch_pit_df(openf1[RoundNumbered(n).session_key].pit).df # <<>>

\* the k-th round has position samples: chapter 5 processes it
HasSamples(k) == \E d \in RunDrivers : SamplesOf(k, d) # {}

\* the [driver, team] labels of the driver_passing rows
PassingLabels ==
    {[driver |-> document.driver_passing[i].driver,
      team   |-> document.driver_passing[i].team] : i \in DOMAIN document.driver_passing}

ListedIn(d) ==
    {k \in 1..idx : /\ HasSamples(k)
                    /\ d \in DOMAIN OpenF1Map5(k) \cup DOMAIN FastF1Map5(k)}

\* the entry of driver d in the k-th round: OpenF1's when it has one, else FastF1's
EntryOf(k, d) ==
    IF d \in DOMAIN OpenF1Map5(k) THEN OpenF1Map5(k)[d] ELSE FastF1Map5(k)[d]

\* the labels of driver d in the season table of chapter 5
SeasonLabels(d) ==
    IF ListedIn(d) = {} THEN [driver |-> number_text(d), team |-> "Unknown"]
    ELSE LET entry == EntryOf(MaxOf(ListedIn(d)), d)
         IN  [driver |-> IF entry.driver # "" THEN entry.driver ELSE number_text(d),
              team   |-> IF entry.team # "" THEN entry.team ELSE "Unknown"]

-----------------------------------------------------------------------------
(* Claims about the pass rate and the processional index *)

\* the /position records of the k-th round that carry a position
KeptSamples(k) == UNION {SamplesOf(k, d) : d \in RunDrivers}

\* total_laps of the k-th round: the largest lap number of each driver in the
\* position records, summed over the drivers; without lap numbers the number of
\* laps in the FastF1 lap table, 0 when that table cannot be had
TotalLaps(k) ==
    LET lapped == {r \in KeptSamples(k) : r.lap_number # None}
        laps   == fastf1[rounds[k].round].laps
    IN  IF lapped # {}
        THEN SumFn([d \in {r.driver_number : r \in lapped} |->
                      MaxOf({r.lap_number : r \in {x \in lapped : x.driver_number = d}})])
        ELSE IF laps.status = "ok" /\ laps.columns_ok
        THEN Cardinality({i \in DOMAIN laps.rows :
                            laps.rows[i].Driver \notin {NullText, MissingText}})
        ELSE 0

\* the row of the k-th round in races
RaceRowOf(k) == CHOOSE row \in Range(races) : row.round = rounds[k].round

\* rate, in hundred-thousandths, is the value nearest to num / den
NearestRate(rate, num, den) ==
    /\ 2 * (RATE_SCALE * num - rate * den) <= den
    /\ 2 * (rate * den - RATE_SCALE * num) <= den

\* C11: every round gone through that has position samples has a row, whose
\* pass_rate is total_overtakes / total_laps (to five decimals) when total_laps > 0
\* and exactly 0 when total_laps <= 0, also when the lap numbers are missing and
\* the FastF1 lap load fails; no run is aborted by the division
C11_PassRate ==
    (export = "ch5_overtakes") =>
        \A k \in 1..idx :
            HasSamples(k) =>
                /\ \E i \in DOMAIN races : races[i].round = rounds[k].round
                /\ IF TotalLaps(k) > 0
                   THEN NearestRate(RaceRowOf(k).pass_rate,
                                    RaceRowOf(k).total_overtakes, TotalLaps(k))
                   ELSE RaceRowOf(k).pass_rate = 0

\* C11 witness: the samples of the first round carry no lap number and the lap
\* load fails: one overtake, pass_rate 0; the second round has a positive rate
C11_Witness ==
    /\ export = "ch5_overtakes"
    /\ pc = "done"
    /\ idx = 2
    /\ HasSamples(1)
    /\ \A r \in KeptSamples(1) : r.lap_number = None
    /\ fastf1[rounds[1].round].laps.status = "error"
    /\ RaceRowOf(1).total_overtakes = 1
    /\ RaceRowOf(1).pass_rate = 0
    /\ HasSamples(2)
    /\ TotalLaps(2) > 0
    /\ RaceRowOf(2).pass_rate > 0

\* the pass rates of the document's rounds
DocumentRates == {document.races[i].pass_rate : i \in DOMAIN document.races}

\* C12: every round's processional_index is an integer from 0 to 100, in the
\* races table and in the circuit index alike, and when all processed rounds
\* have one pass_rate, a single processed round included, every index is 50
C12_IndexRangeAndFlat ==
    (export = "ch5_overtakes" /\ pc = "done") =>
        /\ \A i \in DOMAIN document.races :
              /\ document.races[i].processional_index \in 0..100
              /\ (Cardinality(DocumentRates) = 1) =>
                    document.races[i].processional_index = 50
        /\ {[round |-> document.circuit_index[i].round,
             index |-> document.circuit_index[i].processional_index] :
               i \in DOMAIN document.circuit_index}
             = {[round |-> document.races[i].round,
                 index |-> document.races[i].processional_index] :
                   i \in DOMAIN document.races}

\* C12 witness: one round of the season is processed and the others are
\* skipped; its index is 50
C12_Witness ==
    /\ export = "ch5_overtakes"
    /\ pc = "done"
    /\ idx = SeasonRounds
    /\ Len(document.races) = 1
    /\ document.races[1].pass_rate > 0
    /\ document.races[1].processional_index = 50

\* C13: when the processed rounds differ in pass_rate, every round of the lowest
\* pass_rate has index 100, every round of the highest has index 0, and of two
\* rounds the one of lower pass_rate never has the lower index
C13_IndexInverted ==
    (export = "ch5_overtakes" /\ pc = "done" /\ Cardinality(DocumentRates) > 1) =>
        \A i \in DOMAIN document.races :
            /\ (document.races[i].pass_rate = MinOf(DocumentRates)) =>
                  document.races[i].processional_index = 100
            /\ (document.races[i].pass_rate = MaxOf(DocumentRates)) =>
                  document.races[i].processional_index = 0
            /\ \A j \in DOMAIN document.races :
                  (document.races[i].pass_rate < document.races[j].pass_rate) =>
                     document.races[i].processional_index
                        >= document.races[j].processional_index

\* C13 witness: rounds of pass rates 0.02, 0.05 and 0.08 get 100, 50 and 0
C13_Witness ==
    /\ export = "ch5_overtakes"
    /\ pc = "done"
    /\ Len(document.races) = 3
    /\ document.races[1].pass_rate = 8000
    /\ document.races[1].processional_index = 0
    /\ document.races[2].pass_rate = 2000
    /\ document.races[2].processional_index = 100
    /\ document.races[3].pass_rate = 5000
    /\ document.races[3].processional_index = 50

-----------------------------------------------------------------------------
(* Claims about the DRS share *)

\* the /car_data records of the k-th round, none when the request fails or the
\* columns are missing
CarSamples(k) ==
    LET resp == openf1[rounds[k].session_key].car_data
    IN  IF resp.status = "ok" /\ resp.columns_ok THEN Range(resp.rows) ELSE {}

\* the pass event e of the k-th round has a DRS sample at all
HasDrsSample(k, e) ==
    \E r \in CarSamples(k) : r.driver_number = e.driver_number /\ r.drs # None

\* DRS is active for the driver of e within the 2 seconds before the pass
DrsActive(k, e) ==
    \E r \in CarSamples(k) :
        /\ r.driver_number = e.driver_number
        /\ r.drs # None
        /\ r.drs > 0
        /\ e.date_ts - 2 <= r.date
        /\ r.date <= e.date_ts

\* share, in thousandths, is the value nearest to num / den
NearestShare(share, num, den) ==
    /\ 2 * (SHARE_SCALE * num - share * den) <= den
    /\ 2 * (share * den - SHARE_SCALE * num) <= den

\* the round the loop has just processed: its events are in pass_events
JustProcessed ==
    /\ export = "ch5_overtakes"
    /\ pc \in {"loop", "done"}
    /\ idx >= 1
    /\ HasSamples(idx)

\* C14: a determinate drs_share is the passes with DRS active in the 2 seconds
\* before the pass, divided by the passes that have a DRS sample at all; the
\* passes of drivers without a DRS sample count in neither
C14_DrsShareOverSampledPasses ==
    (JustProcessed /\ RaceRowOf(idx).drs_share # None) =>
        LET sampled == SelectSeq(pass_events, LAMBDA e : HasDrsSample(idx, e))
            active  == SelectSeq(sampled, LAMBDA e : DrsActive(idx, e))
        IN  /\ sampled # <<>>
            /\ NearestShare(RaceRowOf(idx).drs_share, SumGained(active), SumGained(sampled))

\* no pass of the k-th round, whose events are evs, has a DRS sample: no pass
\* at all, a failed /car_data request, no usable car data, or no record of any
\* passing driver
NoAlignedSample(k, evs) ==
    \/ evs = <<>>
    \/ openf1[rounds[k].session_key].car_data.status = "error"
    \/ CarSamples(k) = {}
    \/ \A i \in DOMAIN evs :
          ~\E r \in CarSamples(k) : r.driver_number = evs[i].driver_number

UnavailableNote ==
    "DRS share proxy unavailable for some/all races due car_data alignment limits."

\* C15: when no pass of a round has a DRS sample (no pass events, empty or
\* unusable car data, no sample of any passing driver, a failed /car_data
\* request) the round's drs_share is null and not 0, the row is emitted with its
\* overtake count, and the notes of the document say the proxy was unavailable
C15_DrsShareIndeterminate ==
    /\ (JustProcessed /\ NoAlignedSample(idx, pass_events)) =>
          /\ \E i \in DOMAIN races : races[i].round = rounds[idx].round
          /\ RaceRowOf(idx).drs_share = None
          /\ RaceRowOf(idx).total_overtakes = SumGained(pass_events)
          /\ drs_unavailable
    /\ (export = "ch5_overtakes" /\ pc = "done") =>
          /\ drs_unavailable = (\E i \in DOMAIN document.races :
                                  document.races[i].drs_share = None)
          /\ drs_unavailable => document.notes.drs_note = UnavailableNote

\* C15 witness: two passes in the only round, the car data holds an active DRS
\* sample of a driver who makes no pass: the share is null, the row counts
\* two overtakes and the note says the proxy was unavailable
C15_Witness ==
    /\ JustProcessed
    /\ pc = "done"
    /\ idx = 1
    /\ Len(pass_events) = 2
    /\ CarSamples(1) # {}
    /\ \A r \in CarSamples(1) : r.driver_number = 63 /\ r.drs > 0
    /\ document.races[1].drs_share = None
    /\ document.races[1].total_overtakes = 2
    /\ document.notes.drs_note = UnavailableNote

-----------------------------------------------------------------------------
(* Claims about the undercut proxy *)

\* the /position records of the k-th round that carry a driver number, a
\* position and a lap number
ReadingsOf(k) ==
    LET resp == openf1[rounds[k].session_key].position
    IN  IF resp.status = "ok" /\ resp.columns_ok
        THEN {r \in Range(resp.rows) : /\ r.driver_number # None
                                       /\ r.position # None
                                       /\ r.lap_number # None}
        ELSE {}

\* the positions read for driver d at the given laps of the k-th round
PositionsAt(k, d, laps) ==
    {r.position : r \in {x \in ReadingsOf(k) : x.driver_number = d /\ x.lap_number \in laps}}

\* the pit row r of the k-th round is an attempt: its lap L is known and there
\* is a reading at L-1 and a reading in L+1..L+3
IsAttempt(k, r) ==
    /\ r.lap_number # NaN
    /\ PositionsAt(k, r.driver_number, {r.lap_number - 1}) # {}
    /\ PositionsAt(k, r.driver_number, (r.lap_number + 1)..(r.lap_number + 3)) # {}

\* the position at L-1 minus the best reading in L+1..L+3 is at least 1
GainsOnBest(k, r) ==
    LET before == CHOOSE p \in PositionsAt(k, r.driver_number, {r.lap_number - 1}) : TRUE
        best   == MinOf(PositionsAt(k, r.driver_number,
                                    (r.lap_number + 1)..(r.lap_number + 3)))
    IN  before - best >= 1

\* the first round alone has been processed
FirstRoundProcessed ==
    /\ export = "ch4_pitstops"
    /\ pc = "loop"
    /\ idx = 1
    /\ Len(season_pit_rows) = 1

\* C16: for each pit stop of known lap L with a reading at L-1 the proxy
\* compares that position with the best (lowest) reading among L+1, L+2, L+3 and
\* counts a success exactly when the difference is >= 1; a stop without a
\* reading at L-1 or in L+1..L+3 is no attempt
C16_UndercutBestReading ==
    FirstRoundProcessed =>
        \A t \in {season_pit_rows[1][i].team : i \in DOMAIN season_pit_rows[1]} :
            LET stops     == SelectSeq(season_pit_rows[1], LAMBDA r : r.team = t)
                attempts  == SelectSeq(stops, LAMBDA r : IsAttempt(1, r))
                successes == SelectSeq(attempts, LAMBDA r : GainsOnBest(1, r))
            IN  IF attempts = <<>> THEN t \notin DOMAIN undercut_acc
                ELSE /\ t \in DOMAIN undercut_acc
                     /\ undercut_acc[t] = <<Len(successes), Len(attempts)>>

\* the result of the proxy for the j-th processed round
ProxyOf(j) ==
    compute_undercut_from_openf1(
        openf1[RoundNumbered(race_summary[j].round).session_key].position,
        season_pit_rows[j]).result

\* the processed rounds in which the proxy has attempts of team t
RoundsTried(t) ==
    {j \in DOMAIN season_pit_rows : ProxyOf(j).available /\ t \in DOMAIN ProxyOf(j).teams}

\* the successes (n = 1) and the attempts (n = 2) of team t over the season
SeasonTally(t, n) == SumFn([j \in RoundsTried(t) |-> ProxyOf(j).teams[t][n]])

\* C17: in the season table a team's undercut_success is its successes over
\* its attempts, both summed over all processed rounds, when it has attempts,
\* and null, never 0, when it has none in the whole season
C17_UndercutSuccessRate ==
    (export = "ch4_pitstops" /\ pc = "done") =>
        \A k \in DOMAIN document.team_season :
            LET row       == document.team_season[k]
                successes == SeasonTally(row.team, 1)
                attempts  == SeasonTally(row.team, 2)
            IN  IF attempts = 0 THEN row.undercut_success = None
                ELSE /\ row.undercut_success # None
                     /\ 2 * (MILLI * successes - row.undercut_success * attempts) <= attempts
                     /\ 2 * (row.undercut_success * attempts - MILLI * successes) <= attempts

\* C17 witness: a team fails its attempt of the first round and succeeds in the
\* second, its rate is 0.5; another team of the table has no attempt, its rate
\* is null
C17_Witness ==
    /\ export = "ch4_pitstops"
    /\ pc = "done"
    /\ Len(season_pit_rows) = 2
    /\ \E k, m \in DOMAIN document.team_season :
          /\ RoundsTried(document.team_season[k].team) = {1, 2}
          /\ SeasonTally(document.team_season[k].team, 1) = 1
          /\ SeasonTally(document.team_season[k].team, 2) = 2
          /\ document.team_season[k].undercut_success = 500
          /\ RoundsTried(document.team_season[m].team) = {}
          /\ document.team_season[m].undercut_success = None

-----------------------------------------------------------------------------
(* Claims about the order of the rows *)

\* the rows are in ascending order of avg_pit_s, rows of one average in
\* ascending order of team name
ByAverageThenTeam(rows) ==
    \A i, j \in DOMAIN rows :
        (i < j) =>
            \/ rows[i].avg_pit_s < rows[j].avg_pit_s
            \/ /\ rows[i].avg_pit_s = rows[j].avg_pit_s
               /\ string_rank(rows[i].team) <= string_rank(rows[j].team)

\* C18: in the chapter 4 document the team_season rows are in ascending order
\* of average pit duration and then of team name, and so are the team_by_round
\* rows of each round
C18_PitTablesOrdered ==
    (export = "ch4_pitstops" /\ pc = "done") =>
        /\ ByAverageThenTeam(document.team_season)
        /\ \A n \in {document.team_by_round[i].round : i \in DOMAIN document.team_by_round} :
              ByAverageThenTeam(SelectSeq(document.team_by_round, LAMBDA r : r.round = n))

\* C18 witness: over two rounds the team of the later name has the lower
\* average and comes first in the season table and in the rows of the first
\* round; in the second round it has the higher average and comes second
C18_Witness ==
    /\ export = "ch4_pitstops"
    /\ pc = "done"
    /\ Len(season_pit_rows) = 2
    /\ Len(document.team_season) = 2
    /\ document.team_season[1].team = "Red Bull"
    /\ document.team_season[2].team = "Ferrari"
    /\ document.team_season[1].avg_pit_s < document.team_season[2].avg_pit_s
    /\ Len(document.team_by_round) = 4
    /\ document.team_by_round[1].round = 1
    /\ document.team_by_round[1].team = "Red Bull"
    /\ document.team_by_round[2].team = "Ferrari"
    /\ document.team_by_round[3].round = 2
    /\ document.team_by_round[3].team = "Ferrari"
    /\ document.team_by_round[4].team = "Red Bull"

\* the rows are in descending order of passes_made, then in descending order of
\* positions_gained_net, then in ascending order of driver code
ByPassesThenNetThenDriver(rows) ==
    \A i, j \in DOMAIN rows :
        (i < j) =>
            \/ rows[i].passes_made > rows[j].passes_made
            \/ /\ rows[i].passes_made = rows[j].passes_made
               /\ \/ rows[i].positions_gained_net > rows[j].positions_gained_net
                  \/ /\ rows[i].positions_gained_net = rows[j].positions_gained_net
                     /\ string_rank(rows[i].driver) <= string_rank(rows[j].driver)

\* the rows are in descending order of processional_index, then in ascending
\* order of round number
ByIndexThenRound(rows) ==
    \A i, j \in DOMAIN rows :
        (i < j) =>
            \/ rows[i].processional_index > rows[j].processional_index
            \/ /\ rows[i].processional_index = rows[j].processional_index
               /\ rows[i].round <= rows[j].round

\* C19: in the chapter 5 document the driver_passing rows are in descending
\* order of passes_made, then of positions_gained_net, then in ascending order
\* of driver code, and the circuit_index rows are in descending order of
\* processional_index and then in ascending order of round number
C19_PassingTablesOrdered ==
    (export = "ch5_overtakes" /\ pc = "done") =>
        /\ ByPassesThenNetThenDriver(document.driver_passing)
        /\ ByIndexThenRound(document.circuit_index)
        /\ Len(document.driver_passing) = Len(driver_acc.keys)
        /\ Len(document.circuit_index) = Len(document.races)

\* C19 witness: driver 1 enters the season totals before driver 44, both have
\* two passes and a net of two places, and HAM stands before VER; the third
\* round has the highest index and stands first in the circuit index, before
\* the first and second rounds of one index
C19_Witness ==
    /\ export = "ch5_overtakes"
    /\ pc = "done"
    /\ driver_acc.keys = <<1, 44>>
    /\ Len(document.driver_passing) = 2
    /\ document.driver_passing[1].driver = "HAM"
    /\ document.driver_passing[2].driver = "VER"
    /\ document.driver_passing[1].passes_made = document.driver_passing[2].passes_made
    /\ document.driver_passing[1].positions_gained_net
          = document.driver_passing[2].positions_gained_net
    /\ Len(document.circuit_index) = 3
    /\ document.circuit_index[1].round = 3
    /\ document.circuit_index[2].round = 1
    /\ document.circuit_index[3].round = 2
    /\ document.circuit_index[2].processional_index
          = document.circuit_index[3].processional_index

-----------------------------------------------------------------------------
(* Claims about repeated runs *)

-----------------------------------------------------------------------------
(* Claims about the lap fallback of the chapter 4 export *)

\* the duration field of a /pit response that is recognised: the first of
\* pit_duration, stop_duration and pit_time among its fields, "" without one
RecognisedField(pit) ==
    IF "pit_duration" \in pit.columns THEN "pit_duration"
    ELSE IF "stop_duration" \in pit.columns THEN "stop_duration"
    ELSE IF "pit_time" \in pit.columns THEN "pit_time"
    ELSE ""

\* the records of a /pit response that no filter removes: a duration strictly
\* between 0 and 120 seconds in the recognised field, and a driver number
ValidatedRecords(pit) ==
    IF RecognisedField(pit) = "" THEN {}
    ELSE {i \in DOMAIN pit.rows :
            /\ pit.rows[i][RecognisedField(pit)] # None
            /\ ValidSeconds(pit.rows[i][RecognisedField(pit)])
            /\ "driver_number" \in pit.columns
            /\ pit.rows[i].driver_number # None}

\* the lap table can be read: the load succeeded and the table has the lap and
\* pit columns
LapsReadable(laps) == laps.status = "ok" /\ laps.columns_ok

\* a lap of the table has no lap number
UnnumberedLap(laps) ==
    /\ LapsReadable(laps)
    /\ \E i \in DOMAIN laps.rows : laps.rows[i].LapNumber = NaN

\* the stops of a lap table: a lap b with a pit-exit time right after a lap a of
\* the same driver with a pit-entry time, exit minus entry strictly between 0
\* and 120 seconds
LapStops(laps) ==
    IF ~LapsReadable(laps) THEN {}
    ELSE {s \in (DOMAIN laps.rows) \X (DOMAIN laps.rows) :
            /\ laps.rows[s[1]].Driver = laps.rows[s[2]].Driver
            /\ laps.rows[s[1]].Driver \notin {NullText, MissingText}
            /\ laps.rows[s[1]].LapNumber # NaN
            /\ laps.rows[s[2]].LapNumber = laps.rows[s[1]].LapNumber + 1
            /\ laps.rows[s[1]].PitInTime # NaT
            /\ laps.rows[s[2]].PitOutTime # NaT
            /\ ValidSeconds(laps.rows[s[2]].PitOutTime - laps.rows[s[1]].PitInTime)}

\* the pit table the step has appended for the round
AppendedPitTable == season_pit_rows'[Len(season_pit_rows')]

\* the step appends one pit table whose rows are the validated /pit records
AppendsPitRecords(pit) ==
    /\ Len(season_pit_rows') = Len(season_pit_rows) + 1
    /\ Len(AppendedPitTable) = Cardinality(ValidatedRecords(pit))
    /\ \A j \in DOMAIN AppendedPitTable :
          \E i \in ValidatedRecords(pit) :
             /\ AppendedPitTable[j].driver_number = pit.rows[i].driver_number
             /\ AppendedPitTable[j].pit_s = pit.rows[i][RecognisedField(pit)]

\* the step appends one pit table whose rows are the stops of the lap table
AppendsLapStops(laps) ==
    /\ Len(season_pit_rows') = Len(season_pit_rows) + 1
    /\ Len(AppendedPitTable) = Cardinality(LapStops(laps))
    /\ \A j \in DOMAIN AppendedPitTable :
          \E s \in LapStops(laps) :
             /\ AppendedPitTable[j].lap_number = laps.rows[s[2]].LapNumber
             /\ AppendedPitTable[j].pit_s
                   = laps.rows[s[2]].PitOutTime - laps.rows[s[1]].PitInTime

\* what the claim says of the step that consumes round r when its /pit
\* request has returned
FallbackRule(r) ==
    LET pit  == openf1[r.session_key].pit
        laps == fastf1[r.round].laps
    IN  IF ValidatedRecords(pit) # {}
        THEN \* OpenF1 has a validated pit event: the lap table is not used
             /\ fallback_rounds' = fallback_rounds
             /\ (pc' = "loop") => AppendsPitRecords(pit)
        ELSE IF UnnumberedLap(laps)
        THEN \* the read of the lap table raises: the fallback returns nothing
             \* at all, which is not a case of the claim
             TRUE
        ELSE IF LapStops(laps) # {}
        THEN \* the lap table is used and counted
             /\ fallback_rounds' = fallback_rounds + 1
             /\ (pc' = "loop") => AppendsLapStops(laps)
        ELSE \* neither provider has a stop: no row, the next round is up
             /\ pc' = "loop"
             /\ idx' = idx + 1
             /\ UNCHANGED ch4Vars
             /\ UNCHANGED document

-----------------------------------------------------------------------------
(* Claims about the season pit table *)

\* the durations of the team's validated pit events over all processed rounds
SeasonDurations(team) == team_values(ConcatSeqs(season_pit_rows), team)

\* the row has one of the fields and the field has the value
Carries(row, fields, value) ==
    \E f \in fields : f \in DOMAIN row /\ row[f] = value

\* C22: every team row of the season pit table is computed over all validated
\* pit events of the team in all processed rounds and carries their mean, their
\* median, their 25th and 75th percentiles, their minimum, their population
\* standard deviation and their number
C22_TeamSeasonStatistics ==
    (export = "ch4_pitstops" /\ pc = "done") =>
        \A k \in DOMAIN document.team_season :
            LET row    == document.team_season[k]
                values == SeasonDurations(row.team)
            IN  /\ values # <<>>
                /\ Carries(row, {"n_stops"}, Len(values))
                /\ Carries(row, {"avg_pit_s"}, mean_milli(values))
                /\ Carries(row, {"best_pit_s"}, MILLI * MinOf(Range(values)))
                /\ Carries(row, {"consistency_s"}, std_ddof0(values))
                /\ Carries(row, {"p50_pit_s", "median_pit_s"}, quantile_milli(values, 2))
                /\ Carries(row, {"p25_pit_s"}, quantile_milli(values, 1))
                /\ Carries(row, {"p75_pit_s"}, quantile_milli(values, 3))

-----------------------------------------------------------------------------
(* Claims about the write of the output document *)

\* the rows are in ascending order of round number
ByRound(rows) == \A i, j \in DOMAIN rows : (i < j) => rows[i].round <= rows[j].round

\* the written chapter 4 document holds the tables as main() has left them, in
\* their final order
Ch4DocumentFinal ==
    /\ document.race_summary = race_summary
    /\ document.team_by_round = team_by_round
    /\ Len(race_summary) = Len(season_pit_rows)
    /\ ByRound(document.race_summary)
    /\ ByRound(document.team_by_round)
    /\ ByAverageThenTeam(document.team_season)

\* the written chapter 5 document holds the tables as main() has left them, in
\* their final order
Ch5DocumentFinal ==
    /\ document.races = races
    /\ ByRound(document.races)
    /\ \A i \in DOMAIN document.races : document.races[i].processional_index \in 0..100
    /\ Len(document.circuit_index) = Len(races)
    /\ ByIndexThenRound(document.circuit_index)
    /\ Len(document.driver_passing) = Len(driver_acc.keys)
    /\ ByPassesThenNetThenDriver(document.driver_passing)

\* C23: a run of either export writes its output document at most once, and
\* only when every resolved round has been processed or skipped and the
\* tables are final and sorted; a run that aborts has written nothing
C23_DocumentWrittenOnce ==
    /\ writes <= 1
    /\ (writes = 1) <=> (pc = "done")
    /\ (pc = "aborted") => (writes = 0)
    /\ (pc = "done") =>
          /\ idx = Len(rounds)
          /\ IF export = "ch4_pitstops" THEN Ch4DocumentFinal ELSE Ch5DocumentFinal

\* C23 witness: the chapter 4 export has written its document once, after a
\* first round that is skipped and a second round that has rows
C23_Witness ==
    /\ export = "ch4_pitstops"
    /\ pc = "done"
    /\ writes = 1
    /\ Len(rounds) = 2
    /\ idx = 2
    /\ Len(document.race_summary) = 1
    /\ document.race_summary[1].round = 2

-----------------------------------------------------------------------------
(* Claims about the order in which the rounds are processed *)

\* the second run has written the season pit table and the notes of the first
SamePitAggregates ==
    /\ document.team_season = outputs[1].team_season
    /\ document.notes = outputs[1].notes

\* the second run has written the circuit index and the notes of the first
SameCircuitIndex ==
    /\ document.circuit_index = outputs[1].circuit_index
    /\ document.notes = outputs[1].notes

\* the second run has written the driver_passing rows of the first, the code
\* and the team label of each driver included
SameDriverPassing == document.driver_passing = outputs[1].driver_passing

\* C24: the aggregates do not depend on the order in which the rounds are
\* processed: a run over the same rounds and provider data in another order
\* writes the same team_season, driver_passing and circuit_index rows and the
\* same notes
C24_RoundOrderImmaterial ==
    (pc = "done" /\ outputs # <<>>) =>
        IF export = "ch4_pitstops" THEN SamePitAggregates
        ELSE SameCircuitIndex /\ SameDriverPassing

-----------------------------------------------------------------------------
(* Claims about the lap total of a round *)

\* the position samples of the k-th round that carry a lap number
LappedSamples(k) == {r \in KeptSamples(k) : r.lap_number # None}

\* the largest lap number among the samples of driver d in the k-th round
LastLapOf(k, d) == MaxOf({r.lap_number : r \in {x \in LappedSamples(k) : x.driver_number = d}})

\* the lap rows of the k-th round's FastF1 lap table, driver by driver; none
\* when the load fails, the table is empty or has no Driver column
LapRowsOf(k) ==
    LET laps == fastf1[rounds[k].round].laps
    IN  IF laps.status = "ok" /\ laps.columns_ok
        THEN {i \in DOMAIN laps.rows : laps.rows[i].Driver \notin {NullText, MissingText}}
        ELSE {}

\* total_laps as main() has it for the round it has just processed
LapsTotalOfRound == laps_completed_total(position_df, fastf1[rounds[idx].round].laps)

\* C25: the total_laps of a round is the sum over the drivers of the largest
\* lap number among the driver's position samples as soon as one sample carries
\* a lap number; only without any lap number it is the number of rows of the
\* FastF1 lap table, and 0 when that table fails to load or is empty
C25_TotalLaps ==
    (export = "ch5_overtakes" /\ pc \in {"loop", "done"} /\ idx >= 1 /\ HasSamples(idx)) =>
        IF LappedSamples(idx) # {}
        THEN LapsTotalOfRound
                = SumFn([d \in {r.driver_number : r \in LappedSamples(idx)} |->
                            LastLapOf(idx, d)])
        ELSE LapsTotalOfRound = Cardinality(LapRowsOf(idx))

\* C25 witness: of the two drivers of the round only driver 1 has samples with
\* a lap number, the last of lap 3; total_laps is 3 and not the two rows of the
\* lap table
C25_Witness ==
    /\ export = "ch5_overtakes"
    /\ pc = "loop"
    /\ idx = 1
    /\ \E r \in KeptSamples(1) : r.driver_number = 44 /\ r.lap_number = None
    /\ {r.driver_number : r \in LappedSamples(1)} = {1}
    /\ LastLapOf(1, 1) = 3
    /\ Cardinality(LapRowsOf(1)) = 2
    /\ LapsTotalOfRound = 3

-----------------------------------------------------------------------------
(* Claims about the pit events of the lap fallback *)

\* the pit events of the table of round n as <<driver, lap, seconds>>
PitEventsOf(n) ==
    {<<PitTableOf(n)[i].driver, PitTableOf(n)[i].lap_number, PitTableOf(n)[i].pit_s>> :
        i \in DOMAIN PitTableOf(n)}

\* the stops of a lap table as <<driver, lap of the exit, exit minus entry>>
LapStopEvents(laps) ==
    {<<laps.rows[s[2]].Driver, laps.rows[s[2]].LapNumber,
       laps.rows[s[2]].PitOutTime - laps.rows[s[1]].PitInTime>> : s \in LapStops(laps)}

\* the k-th round has been consumed and its pit events, if any, come from the
\* lap table: the /pit request returned and has no validated record
ConsumedFromLaps(k) ==
    /\ k <= idx
    /\ openf1[rounds[k].session_key].pit.status = "ok"
    /\ ValidatedRecords(openf1[rounds[k].session_key].pit) = {}

\* the round of number n has a pit table
HasPitTable(n) == \E j \in DOMAIN race_summary : race_summary[j].round = n

\* C26: the FastF1 lap fallback emits a pit event for driver D at lap L exactly
\* when D's lap L has a pit-exit time, D has a lap L-1 with a pit-entry time and
\* exit minus entry lies strictly between 0 and 120 seconds; the duration of
\* the event is exit minus entry; a pit exit without a preceding lap, or after
\* a lap without a pit-entry time, gives no event
C26_FallbackPitEvents ==
    (export = "ch4_pitstops" /\ pc # "start") =>
        \A k \in DOMAIN rounds :
            ConsumedFromLaps(k) =>
                LET n     == rounds[k].round
                    stops == LapStopEvents(fastf1[n].laps)
                IN  IF HasPitTable(n)
                    THEN /\ PitEventsOf(n) = stops
                         /\ Len(PitTableOf(n)) = Cardinality(stops)
                    ELSE stops = {}

\* C26 witness: the lap table of the first round has a pit entry of two drivers
\* on lap 1 and their pit exits on lap 2, two and three seconds later; the
\* fallback has emitted the two events and the run has gone on
C26_Witness ==
    /\ export = "ch4_pitstops"
    /\ pc = "done"
    /\ ConsumedFromLaps(1)
    /\ HasPitTable(1)
    /\ PitEventsOf(1) = {<<"HAM", 2, 2>>, <<"VER", 2, 3>>}
    /\ \E i \in DOMAIN fastf1[1].laps.rows :
          /\ fastf1[1].laps.rows[i].LapNumber = 1
          /\ fastf1[1].laps.rows[i].PitInTime = PitEntry

-----------------------------------------------------------------------------
(* Claims about the stop counts of the season pit table *)

\* the validated pit events of all processed rounds
SeasonEvents == ConcatSeqs(season_pit_rows)

\* the team_season rows that carry the team
SeasonRowsOf(team) ==
    {k \in DOMAIN document.team_season : document.team_season[k].team = team}

\* C27: every validated pit event of every processed round is counted once, in
\* the team_season row of its team and in no other: each team of an event has
\* one row, whose n_stops is the number of the team's events, the n_stops of
\* all rows sum to the number of validated events, and no row counts an event
\* that was discarded
C27_EveryStopCountedOnce ==
    (export = "ch4_pitstops" /\ pc = "done") =>
        /\ \A i \in DOMAIN SeasonEvents :
              /\ ValidSeconds(SeasonEvents[i].pit_s)
              /\ Cardinality(SeasonRowsOf(SeasonEvents[i].team)) = 1
        /\ \A k \in DOMAIN document.team_season :
              /\ document.team_season[k].n_stops
                    = StopsOf(SeasonEvents, document.team_season[k].team)
              /\ document.team_season[k].n_stops >= 1
        /\ SumFn([k \in DOMAIN document.team_season |-> document.team_season[k].n_stops])
              = Len(SeasonEvents)

-----------------------------------------------------------------------------
(* Claims about the cooldown window *)

\* the timestamps of the PassEvents of driver d
EventTimes(d) == {pass_events[i].date_ts : i \in {j \in DOMAIN pass_events :
                                                    pass_events[j].driver_number = d}}

\* sample i of the ordered samples o is a gain of at least one place
IsGain(o, i) == i >= 2 /\ o[i - 1].position - o[i].position >= 1

\* no PassEvent of driver d lies less than the cooldown before the time ts
ClearOfEvents(d, ts) ==
    \A t \in EventTimes(d) : (t < ts) => (ts - t >= PASS_COOLDOWN_S)

\* C28: in one round two PassEvents of one driver are at least 8 seconds
\* apart, and the window counts from the last emitted event alone: a gain that
\* lies 8 seconds or more after the last emitted event is emitted, whatever
\* gains were suppressed in between
C28_CooldownFromLastEmitted ==
    (pc = "inferred") =>
        \A d \in DriversOf(position_df) :
            /\ Len(EventsOf(pass_events, d)) = Cardinality(EventTimes(d))
            /\ \A t, u \in EventTimes(d) : (t < u) => (u - t >= PASS_COOLDOWN_S)
            /\ \E o \in TimeOrders(position_df, d) :
                  /\ \A t \in EventTimes(d) :
                        \E i \in DOMAIN o : IsGain(o, i) /\ o[i].date_ts = t
                  /\ \A i \in DOMAIN o :
                        (IsGain(o, i) /\ ClearOfEvents(d, o[i].date_ts))
                            => o[i].date_ts \in EventTimes(d)

\* C28 witness: driver 44 gains a place at 1 s, at 5 s and at 9 s; the gain
\* at 5 s is suppressed and the gain at 9 s, 8 s after the last emitted event
\* and 4 s after the suppressed gain, is emitted
C28_Witness ==
    /\ pc = "inferred"
    /\ EventTimes(44) = {1, 9}
    /\ \E o \in TimeOrders(position_df, 44) :
          \E i \in DOMAIN o : IsGain(o, i) /\ o[i].date_ts = 5

-----------------------------------------------------------------------------
(* Claims about the overtake totals *)

\* the sum of a column over the rows of a table
SumOver(rows, column) == SumFn([i \in DOMAIN rows |-> rows[i][column]])

\* the sum of passes_made over the season totals of the drivers
SeasonPasses == SumFn([d \in DOMAIN driver_acc.val |-> driver_acc.val[d].passes_made])

\* C29: the total_overtakes of every processed round is the sum of the
\* magnitudes of the round's PassEvents and the sum of passes_made over the
\* round's drivers; the passes_made of all driver_passing rows sum to the
\* total_overtakes of all races rows
C29_OvertakeTotalsAgree ==
    (export = "ch5_overtakes") =>
        /\ (pc \in {"loop", "done"} /\ idx >= 1 /\ HasSamples(idx)) =>
              /\ RaceRowOf(idx).total_overtakes = SumGained(pass_events)
              /\ RaceRowOf(idx).total_overtakes
                    = SumFn([d \in DOMAIN driver_stats |-> driver_stats[d].passes_made])
        /\ (pc \in {"loop", "done"}) => SeasonPasses = SumOver(races, "total_overtakes")
        /\ (pc = "done") =>
              /\ Len(document.driver_passing) = Cardinality(DOMAIN driver_acc.val)
              /\ SumOver(document.driver_passing, "passes_made")
                    = SumOver(document.races, "total_overtakes")

\* C29 witness: two rounds with overtakes are processed, driver 44 makes
\* passes in both, and the four passes of the two driver_passing rows are the
\* overtakes of the two races rows
C29_Witness ==
    /\ export = "ch5_overtakes"
    /\ pc = "done"
    /\ Len(document.races) = 2
    /\ document.races[1].total_overtakes >= 1
    /\ document.races[2].total_overtakes >= 1
    /\ Len(document.driver_passing) = 2
    /\ \A i \in 1..2 : document.driver_passing[i].passes_made >= 1
    /\ SumOver(document.driver_passing, "passes_made") = 4

-----------------------------------------------------------------------------
(* Claims about the undercut accumulator *)

\* the /position data of round r gives the undercut proxy nothing to read: the
\* request fails, returns no rows, lacks a column, or no row carries a driver
\* number, a position and a lap number
PositionUnavailable(r) ==
    LET resp == openf1[r.session_key].position
    IN  \/ resp.status = "error"
        \/ resp.rows = <<>>
        \/ ~resp.columns_ok
        \/ \A i \in DOMAIN resp.rows :
              \/ resp.rows[i].driver_number = None
              \/ resp.rows[i].position = None
              \/ resp.rows[i].lap_number = None

\* the accumulated <<successes, attempts>> of every team: successes between 0
\* and the attempts, attempts at most the team's validated pit stops so far
TalliesBounded ==
    \A t \in DOMAIN undercut_acc :
        /\ 0 <= undercut_acc[t][1]
        /\ undercut_acc[t][1] <= undercut_acc[t][2]
        /\ undercut_acc[t][2] <= StopsOf(SeasonEvents, t)

\* every undercut_success of the document is null or between 0 and 1
RatesBounded ==
    \A k \in DOMAIN document.team_season :
        \/ document.team_season[k].undercut_success = None
        \/ document.team_season[k].undercut_success \in 0..MILLI

\* the step through a round without position data leaves the accumulator alone
UnavailableRoundAddsNothing ==
    (/\ export = "ch4_pitstops"
     /\ pc = "loop"
     /\ idx < Len(rounds)
     /\ PositionUnavailable(rounds[idx + 1])) => (undercut_acc' = undercut_acc)

\* C30: at every point of the chapter 4 run every team has 0 <= successes <=
\* attempts in the undercut accumulator, a pit stop adds at most one attempt, a
\* round whose position data is unavailable changes no team's accumulator,
\* and every undercut_success that is not null lies between 0 and 1
C30_UndercutAccumulatorBounded ==
    /\ [](export = "ch4_pitstops" => TalliesBounded)
    /\ []((export = "ch4_pitstops" /\ pc = "done") => RatesBounded)
    /\ [][UnavailableRoundAddsNothing]_vars

\* C30 witness: the first round gives Ferrari one success of one attempt, the
\* second round has pit stops and no position data, and the run ends with the
\* accumulator of the first round and a success rate of 1
C30_Witness ==
    /\ export = "ch4_pitstops"
    /\ pc = "done"
    /\ Len(rounds) = 2
    /\ Len(season_pit_rows) = 2
    /\ PositionUnavailable(rounds[2])
    /\ "Ferrari" \in DOMAIN undercut_acc
    /\ undercut_acc["Ferrari"] = <<1, 1>>
    /\ \E k \in DOMAIN document.team_season :
          /\ document.team_season[k].team = "Ferrari"
          /\ document.team_season[k].undercut_success = MILLI

=============================================================================
